---------------------------- MODULE Spec2Model ----------------------------
(***************************************************************************)
(* happy-codec: the pure-JS UTF-8 and Base64 codecs (src/src/lib/utf8.ts,  *)
(* src/src/lib/base64.ts) as a state machine.                              *)
(*                                                                         *)
(* A JavaScript string is a sequence of UTF-16 code units (0..65535), a    *)
(* Uint8Array a sequence of bytes (0..255).  JS indexes from 0, TLA+ from  *)
(* 1: the byte the code calls bytes[i] is bytes[i + 1] here.               *)
(***************************************************************************)
EXTENDS Integers, Sequences, FiniteSets

VARIABLES
    str,          \* encodeUtf8Fallback: the string `data` (NoValue: no encode call)
    encI,         \* encodeUtf8Fallback: the loop index `i`
    bytes,        \* encodeUtf8Fallback: the array `bytes`; decodeUtf8Fallback: the buffer `bytes`
    fatal,        \* options.fatal
    ignoreBOM,    \* options.ignoreBOM
    i,            \* decodeUtf8Fallback: the read index `i`
    result,       \* decodeUtf8Fallback: the local `result`
    bytesNeeded,  \* decodeUtf8Fallback: the local `bytesNeeded` of the last iteration
    codePoint,    \* decodeUtf8Fallback: the local `codePoint` of the last iteration
    pc,           \* position of the UTF-8 call
    out           \* the value the UTF-8 call returned (NoValue before, and after a throw)

VARIABLES
    data,               \* encodeBase64Fallback: the buffer `bytes`
    alphabet,           \* options.alphabet of the encode and of the decode call
    omitPadding,        \* options.omitPadding
    lastChunkHandling,  \* options.lastChunkHandling
    base64,             \* the Base64 text: the encoder's result, the decoder's argument
    decoded,            \* the buffer decodeBase64Fallback returned (NoValue: none)
    thrown,             \* the message of the SyntaxError it threw ("": none)
    lookup,             \* the Lazy `lookup` (base64.ts:31)
    lookupUrl,          \* the Lazy `lookupUrl` (base64.ts:36)
    b64pc               \* position of the Base64 calls

VARIABLES
    lazyState,   \* a Lazy (part_003:100-113): its closure variables `initialized` and `value`
    callers,     \* each caller of its force(): where it is, what it got, how often it called
    initCalls,   \* how many times `init` has been invoked
    initThrows,  \* how many of these invocations have thrown
    running      \* the caller whose call is on the stack (0: the stack is empty)

VARIABLES
    fn,           \* the exported function that is called ("": none)
    arg,          \* its argument, a JavaScript value
    ret,          \* the value it returned (NoValue: none)
    err,          \* the name of the error it threw ("": none)
    callPc,       \* position of that call
    encodeTable,  \* the Lazy `encodeTable` (hex.ts:25)
    decodeTable   \* the Lazy `decodeTable` (hex.ts:29)

utf8vars == <<str, encI, bytes, fatal, ignoreBOM, i, result, bytesNeeded, codePoint, pc, out>>

b64vars ==
    <<data, alphabet, omitPadding, lastChunkHandling, base64, decoded, thrown,
      lookup, lookupUrl, b64pc>>

lazyvars == <<lazyState, callers, initCalls, initThrows, running>>

callvars == <<fn, arg, ret, err, callPc, encodeTable, decodeTable>>

vars == <<utf8vars, b64vars, lazyvars, callvars>>

\* what the UTF-8 calls leave alone
notUtf8 == <<b64vars, lazyvars, callvars>>

\* what the Base64 calls leave alone
notBase64 == <<utf8vars, lazyvars, callvars>>

NoValue == <<-1>>

-----------------------------------------------------------------------------
(* Bounds of the model.                                                    *)

\* longest buffer over ByteSet handed to decodeUtf8Fallback
MaxLen == 3

\* longest buffer over FourByteSet (complete 4-byte sequences)
MaxLongLen == 4

\* longest buffer over BomByteSet (two byte order marks in a row)
MaxBomLen == 6

\* longest string handed to encodeUtf8Fallback
MaxStrLen == 3

\* longest buffer handed to encodeBase64Fallback
MaxDataLen == 4

\* Bytes on both sides of every comparison decodeUtf8Fallback makes.
ByteSet ==
    { \h41, \h80, \h9F, \hA0, \hBF, \hC1, \hC2, \hE0, \hED, \hEF, \hF0, \hF5 }

FourByteSet == { \h41, \h80, \h8F, \h90, \hBF, \hF0, \hF4 }

BomByteSet == { \h41, \hBB, \hBF, \hEF }

\* the longest buffer drawn from ReplByteSet
MaxReplLen == 4

\* 'A' and the three bytes of U+FFFD
ReplByteSet == { \h41, \hBD, \hBF, \hEF }

\* UTF-16 code units at the ends of every range encodeUtf8Fallback tells
\* apart, the surrogates included
UnitSet ==
    { \h41, \h7F, \h80, \h7FF, \h800, \hFEFF, \hFFFF,
      \hD800, \hDBFF, \hDC00, \hDFFF }

\* bytes whose 6-bit slices reach both ends of the alphabet ('A', '+', '/')
DataByteSet == { \h00, \h41, \h7E, \hFB, \hFF }

SeqsUpTo(S, n) == UNION { [1..k -> S] : k \in 0..n }

-----------------------------------------------------------------------------
(* JavaScript integer operators on non-negative operands.                  *)

RECURSIVE BitAnd(_, _)
\* x & y
BitAnd(x, y) ==
    IF x = 0 \/ y = 0 THEN 0
    ELSE 2 * BitAnd(x \div 2, y \div 2) + (IF x % 2 = 1 /\ y % 2 = 1 THEN 1 ELSE 0)

RECURSIVE BitOr(_, _)
\* x | y
BitOr(x, y) ==
    IF x = 0 THEN y
    ELSE IF y = 0 THEN x
    ELSE 2 * BitOr(x \div 2, y \div 2) + (IF x % 2 = 1 \/ y % 2 = 1 THEN 1 ELSE 0)

\* x << n (no operand of the codecs reaches 2^31)
Shl(x, n) == x * (2 ^ n)

\* x >> n
Shr(x, n) == x \div (2 ^ n)

-----------------------------------------------------------------------------
(* JavaScript string operations, on sequences of UTF-16 code units.        *)

\* a fromCodePoint that never splits into a surrogate pair (String.fromCharCode)
FromCodePointNoPair(cp) == <<cp % 65536>>

\* String.fromCodePoint(cp): one code unit, or a surrogate pair from U+10000 up
FromCodePoint(cp) ==
    IF cp < \h10000 THEN <<cp>>
    ELSE << \hD800 + ((cp - \h10000) \div \h400), \hDC00 + ((cp - \h10000) % \h400) >>

\* String.fromCharCode(u)
FromCharCode(u) == <<u % 65536>>

\* the string BOM, U+FEFF (utf8.ts:13)
BOM == << \hFEFF >>

\* s.startsWith(p)
StartsWith(s, p) == Len(s) >= Len(p) /\ SubSeq(s, 1, Len(p)) = p

\* s.slice(n)
Slice(s, n) == SubSeq(s, n + 1, Len(s))

-----------------------------------------------------------------------------
(* encodeUtf8Fallback (utf8.ts:122-152).                                   *)

IsHighSurrogate(u) == u >= \hD800 /\ u <= \hDBFF

IsLowSurrogate(u) == u >= \hDC00 /\ u <= \hDFFF

\* a codePointAt that gives U+FFFD for a surrogate that has no partner
CodePointAtReplacing(s, idx) ==
    LET first == s[idx + 1]
    IN  IF IsHighSurrogate(first) /\ idx + 1 < Len(s) /\ IsLowSurrogate(s[idx + 2])
        THEN (first - \hD800) * \h400 + (s[idx + 2] - \hDC00) + \h10000
        ELSE IF IsHighSurrogate(first) \/ IsLowSurrogate(first) THEN \hFFFD
        ELSE first

\* s.codePointAt(idx): a high surrogate followed by a low one is combined,
\* any other code unit is returned as it is
CodePointAt(s, idx) ==
    LET first == s[idx + 1]
    IN  IF IsHighSurrogate(first) /\ idx + 1 < Len(s) /\ IsLowSurrogate(s[idx + 2])
        THEN (first - \hD800) * \h400 + (s[idx + 2] - \hDC00) + \h10000
        ELSE first

\* a loop body that does not skip the low surrogate after a 4-byte sequence
EncodeBodyNoSkip(s, idx, acc) ==
    LET cp == CodePointAt(s, idx)
    IN  IF cp < \h80
        THEN [i |-> idx + 1, bytes |-> acc \o <<cp>>]
        ELSE IF cp < \h800
        THEN [i |-> idx + 1,
              bytes |-> acc \o << BitOr(\hC0, Shr(cp, 6)),
                                  BitOr(\h80, BitAnd(cp, \h3F)) >>]
        ELSE IF cp < \h10000
        THEN [i |-> idx + 1,
              bytes |-> acc \o << BitOr(\hE0, Shr(cp, 12)),
                                  BitOr(\h80, BitAnd(Shr(cp, 6), \h3F)),
                                  BitOr(\h80, BitAnd(cp, \h3F)) >>]
        ELSE [i |-> idx + 1,
              bytes |-> acc \o << BitOr(\hF0, Shr(cp, 18)),
                                  BitOr(\h80, BitAnd(Shr(cp, 12), \h3F)),
                                  BitOr(\h80, BitAnd(Shr(cp, 6), \h3F)),
                                  BitOr(\h80, BitAnd(cp, \h3F)) >>]

\* One iteration of the for loop (utf8.ts:125-149) at index idx, its i++
\* included: the index and the array after it.
EncodeBody(s, idx, acc) ==
    LET cp == CodePointAt(s, idx)
    IN  IF cp < \h80
        THEN [i |-> idx + 1, bytes |-> acc \o <<cp>>]
        ELSE IF cp < \h800
        THEN [i |-> idx + 1,
              bytes |-> acc \o << BitOr(\hC0, Shr(cp, 6)),
                                  BitOr(\h80, BitAnd(cp, \h3F)) >>]
        ELSE IF cp < \h10000
        THEN [i |-> idx + 1,
              bytes |-> acc \o << BitOr(\hE0, Shr(cp, 12)),
                                  BitOr(\h80, BitAnd(Shr(cp, 6), \h3F)),
                                  BitOr(\h80, BitAnd(cp, \h3F)) >>]
        ELSE [i |-> idx + 2,
              bytes |-> acc \o << BitOr(\hF0, Shr(cp, 18)),
                                  BitOr(\h80, BitAnd(Shr(cp, 12), \h3F)),
                                  BitOr(\h80, BitAnd(Shr(cp, 6), \h3F)),
                                  BitOr(\h80, BitAnd(cp, \h3F)) >>]

\* new Uint8Array(array): every element is stored modulo 256
ToUint8Array(array) == [k \in 1..Len(array) |-> array[k] % 256]

RECURSIVE EncodeFrom(_, _, _)
\* the for loop from index idx to its end, then the return (utf8.ts:151)
EncodeFrom(s, idx, acc) ==
    IF idx >= Len(s) THEN ToUint8Array(acc)
    ELSE LET n == EncodeBody(s, idx, acc) IN EncodeFrom(s, n.i, n.bytes)

\* encodeUtf8Fallback(data) as a function of its argument
encodeUtf8Fallback(s) == EncodeFrom(s, 0, <<>>)

-----------------------------------------------------------------------------
(* decodeUtf8Fallback (utf8.ts:161-256).                                   *)

\* the code unit handleInvalid appends (utf8.ts:174)
REPLACEMENT == 65533

\* a decoder that takes 0xC0 and 0xC1 for 2-byte leads
BytesNeededFromC0(byte1) ==
    IF byte1 >= \hC0 /\ byte1 < \hE0 THEN 2
    ELSE IF byte1 >= \hE0 /\ byte1 < \hF0 THEN 3
    ELSE IF byte1 >= \hF0 /\ byte1 < \hF5 THEN 4
    ELSE 0

\* bytesNeeded chosen from the lead byte, 0 for an invalid lead (utf8.ts:195-216)
BytesNeededOf(byte1) ==
    IF byte1 >= \hC2 /\ byte1 < \hE0 THEN 2
    ELSE IF byte1 >= \hE0 /\ byte1 < \hF0 THEN 3
    ELSE IF byte1 >= \hF0 /\ byte1 < \hF5 THEN 4
    ELSE 0

\* the initial codePoint taken from the lead byte (utf8.ts:198, 202, 208)
LeadBits(byte1) ==
    IF byte1 >= \hC2 /\ byte1 < \hE0 THEN BitAnd(byte1, \h1F)
    ELSE IF byte1 >= \hE0 /\ byte1 < \hF0 THEN BitAnd(byte1, \h0F)
    ELSE BitAnd(byte1, \h07)

\* lowerBoundary after the lead byte (utf8.ts:192, 203, 209)
LowerBoundary(byte1) ==
    IF byte1 = \hE0 THEN \hA0
    ELSE IF byte1 = \hF0 THEN \h90
    ELSE \h80

\* a decoder that does not narrow the range after 0xED
UpperBoundaryNoSurrogateCheck(byte1) ==
    IF byte1 = \hF4 THEN \h8F ELSE \hBF

\* upperBoundary after the lead byte (utf8.ts:193, 204, 210)
UpperBoundary(byte1) ==
    IF byte1 = \hED THEN \h9F
    ELSE IF byte1 = \hF4 THEN \h8F
    ELSE \hBF

RECURSIVE ContLoop(_, _, _, _, _, _, _)
\* the for loop over the continuation bytes (utf8.ts:226-237), from index j
ContLoop(bs, at, needed, j, cp, lowerBoundary, upperBoundary) ==
    IF j >= needed THEN [valid |-> TRUE, codePoint |-> cp]
    ELSE
        LET byte  == bs[at + j + 1]
            lower == IF j = 1 THEN lowerBoundary ELSE \h80
            upper == IF j = 1 THEN upperBoundary ELSE \hBF
        IN  IF byte < lower \/ byte > upper
            THEN [valid |-> FALSE, codePoint |-> cp]
            ELSE ContLoop(bs, at, needed, j + 1,
                          BitOr(Shl(cp, 6), BitAnd(byte, \h3F)),
                          lowerBoundary, upperBoundary)

\* a handleInvalid that never throws
\* a handleInvalid that drops the malformed bytes in non-fatal mode
HandleInvalidSilent(isFatal, res) ==
    IF isFatal
    THEN [thrown |-> TRUE, result |-> res]
    ELSE [thrown |-> FALSE, result |-> res]

HandleInvalidNoThrow(isFatal, res) ==
    [thrown |-> FALSE, result |-> res \o FromCharCode(REPLACEMENT)]

\* handleInvalid (utf8.ts:170-175): throw when fatal, else append U+FFFD
HandleInvalid(isFatal, res) ==
    IF isFatal
    THEN [thrown |-> TRUE, result |-> res]
    ELSE [thrown |-> FALSE, result |-> res \o FromCharCode(REPLACEMENT)]

\* One iteration of the while loop (utf8.ts:179-248) at index `at` < length:
\* the locals after it, and where control goes ("loop", "exit" on break,
\* "error" on a throw).
LoopBody(bs, isFatal, at, res, needed0, cp0) ==
    LET byte1 == bs[at + 1]
        needed == BytesNeededOf(byte1)
    IN  IF byte1 < \h80
        THEN [pc |-> "loop", i |-> at + 1, result |-> res \o FromCodePoint(byte1),
              bytesNeeded |-> needed0, codePoint |-> cp0]
        ELSE IF needed = 0
        THEN LET h == HandleInvalid(isFatal, res)
             IN  IF h.thrown
                 THEN [pc |-> "error", i |-> at, result |-> res,
                       bytesNeeded |-> needed0, codePoint |-> cp0]
                 ELSE [pc |-> "loop", i |-> at + 1, result |-> h.result,
                       bytesNeeded |-> needed0, codePoint |-> cp0]
        ELSE IF at + needed > Len(bs)
        THEN LET h == HandleInvalid(isFatal, res)
             IN  IF h.thrown
                 THEN [pc |-> "error", i |-> at, result |-> res,
                       bytesNeeded |-> needed, codePoint |-> LeadBits(byte1)]
                 ELSE [pc |-> "exit", i |-> at, result |-> h.result,
                       bytesNeeded |-> needed, codePoint |-> LeadBits(byte1)]
        ELSE LET c == ContLoop(bs, at, needed, 1, LeadBits(byte1),
                               LowerBoundary(byte1), UpperBoundary(byte1))
             IN  IF ~c.valid
                 THEN LET h == HandleInvalid(isFatal, res)
                      IN  IF h.thrown
                          THEN [pc |-> "error", i |-> at, result |-> res,
                                bytesNeeded |-> needed, codePoint |-> c.codePoint]
                          ELSE [pc |-> "loop", i |-> at + 1, result |-> h.result,
                                bytesNeeded |-> needed, codePoint |-> c.codePoint]
                 ELSE [pc |-> "loop", i |-> at + needed,
                       result |-> res \o FromCodePoint(c.codePoint),
                       bytesNeeded |-> needed, codePoint |-> c.codePoint]

\* a return that strips the BOM whatever ignoreBOM says
StripBOMAlways(res, keepBOM) ==
    IF StartsWith(res, BOM) THEN Slice(res, 1) ELSE res

\* the code after the loop (utf8.ts:250-255): strip one leading BOM unless ignoreBOM
StripBOM(res, keepBOM) ==
    IF ~keepBOM /\ StartsWith(res, BOM) THEN Slice(res, 1) ELSE res

RECURSIVE DecodeFrom(_, _, _, _, _)
\* the while loop from index `at` to its end, then the code after it
DecodeFrom(bs, isFatal, keepBOM, at, res) ==
    IF at >= Len(bs) THEN [ok |-> TRUE, text |-> StripBOM(res, keepBOM)]
    ELSE
        LET n == LoopBody(bs, isFatal, at, res, 0, 0)
        IN  IF n.pc = "error" THEN [ok |-> FALSE, text |-> NoValue]
            ELSE IF n.pc = "exit" THEN [ok |-> TRUE, text |-> StripBOM(n.result, keepBOM)]
            ELSE DecodeFrom(bs, isFatal, keepBOM, n.i, n.result)

\* decodeUtf8Fallback(data, {fatal, ignoreBOM}) as a function of its arguments
decodeUtf8Fallback(bs, isFatal, keepBOM) == DecodeFrom(bs, isFatal, keepBOM, 0, <<>>)

-----------------------------------------------------------------------------
(* Lazy (internal): force() runs init on the first call and caches it.     *)

\* the Lazy after force() with an init returning initValue; the value
\* force() returns is the `value` of the Lazy after the call
Force(lazy, initValue) ==
    IF ~lazy.initialized
    THEN [initialized |-> TRUE, value |-> initValue]
    ELSE lazy

-----------------------------------------------------------------------------
(* Base64 (base64.ts).  A character is its char code.                      *)

\* '=' (base64.ts:203, 209, 235)
PAD == 61

\* commonChars (base64.ts:16): A-Z, a-z, 0-9
commonChars ==
    [k \in 1..62 |-> IF k <= 26 THEN 64 + k
                     ELSE IF k <= 52 THEN 96 + (k - 26)
                     ELSE 47 + (k - 52)]

\* base64abc (base64.ts:21): commonChars, '+', '/'
base64abc == commonChars \o <<43, 47>>

\* a URL-safe alphabet with '_' and '-' in each other's place
base64urlAbcSwapped == commonChars \o <<95, 45>>

\* base64urlAbc (base64.ts:26): commonChars, '-', '_'
base64urlAbc == commonChars \o <<45, 95>>

\* a table that stores the position counted from 1
buildLookupFromOne(abc) ==
    [c \in 0..127 |->
        IF \E k \in 1..Len(abc) : abc[k] = c
        THEN (CHOOSE k \in 1..Len(abc) : abc[k] = c) % 64
        ELSE 0]

\* buildLookup(abc) (base64.ts:325-333): 128 zeroed entries, entry
\* abc[k].charCodeAt(0) set to k
buildLookup(abc) ==
    [c \in 0..127 |->
        IF \E k \in 1..Len(abc) : abc[k] = c
        THEN (CHOOSE k \in 1..Len(abc) : abc[k] = c) - 1
        ELSE 0]

\* what the init of `lookup` returns: buildLookup(base64abc) (base64.ts:31)
lookupInit == buildLookup(base64abc)

\* what the init of `lookupUrl` returns: buildLookup(base64urlAbc) (base64.ts:36)
lookupUrlInit == buildLookup(base64urlAbc)

\* the character after abc[n]
AbcAtNext(abc, n) == abc[((n + 1) % 64) + 1]

\* abc[n]
AbcAt(abc, n) == abc[n + 1]

RECURSIVE EncodeGroups(_, _, _, _)
\* the for loop of encodeBase64Fallback (base64.ts:187-192) from index idx
EncodeGroups(bs, abc, idx, res) ==
    IF idx >= Len(bs) THEN [i |-> idx, result |-> res]
    ELSE EncodeGroups(bs, abc, idx + 3,
            res \o << AbcAt(abc, Shr(bs[idx - 1], 2)),
                      AbcAt(abc, BitOr(Shl(BitAnd(bs[idx - 1], \h03), 4), Shr(bs[idx], 4))),
                      AbcAt(abc, BitOr(Shl(BitAnd(bs[idx], \h0F), 2), Shr(bs[idx + 1], 6))),
                      AbcAt(abc, BitAnd(bs[idx + 1], \h3F)) >>)

\* encodeBase64Fallback(bytes, {alphabet, omitPadding}) (base64.ts:175-213)
encodeBase64Fallback(bs, alpha, omit) ==
    LET abc == IF alpha = "base64url" THEN base64urlAbc ELSE base64abc
        byteLength == Len(bs)
        g == EncodeGroups(bs, abc, 2, <<>>)
    IN  IF g.i = byteLength + 1
        THEN g.result
                \o << AbcAt(abc, Shr(bs[g.i - 1], 2)),
                      AbcAt(abc, Shl(BitAnd(bs[g.i - 1], \h03), 4)) >>
                \o (IF ~omit THEN <<PAD, PAD>> ELSE <<>>)
        ELSE IF g.i = byteLength
        THEN g.result
                \o << AbcAt(abc, Shr(bs[g.i - 1], 2)),
                      AbcAt(abc, BitOr(Shl(BitAnd(bs[g.i - 1], \h03), 4), Shr(bs[g.i], 4))),
                      AbcAt(abc, Shl(BitAnd(bs[g.i], \h0F), 2)) >>
                \o (IF ~omit THEN <<PAD>> ELSE <<>>)
        ELSE g.result

\* a replace that takes one trailing '=' only
StripPaddingOne(text) ==
    LET n == Len(text)
    IN  IF n >= 1 /\ text[n] = PAD THEN SubSeq(text, 1, n - 1) ELSE text

\* base64.replace(/={1,2}$/, '') (base64.ts:235): at most two trailing '=' go
StripPadding(text) ==
    LET n == Len(text)
    IN  IF n >= 2 /\ text[n] = PAD /\ text[n - 1] = PAD THEN SubSeq(text, 1, n - 2)
        ELSE IF n >= 1 /\ text[n] = PAD THEN SubSeq(text, 1, n - 1)
        ELSE text

\* a character class that takes '+', '/', '-' and '_' in both alphabets
InClassEither(c, isUrlSafe) ==
    \/ c \in 65..90
    \/ c \in 97..122
    \/ c \in 48..57
    \/ c \in {43, 47, 45, 95}

\* a character of [A-Za-z0-9+/], or of [A-Za-z0-9\-_] when isUrlSafe
InClass(c, isUrlSafe) ==
    \/ c \in 65..90
    \/ c \in 97..122
    \/ c \in 48..57
    \/ (~isUrlSafe /\ c \in {43, 47})
    \/ (isUrlSafe /\ c \in {45, 95})

\* BASE64_RE.test(text) / BASE64URL_RE.test(text) (base64.ts:41, 46)
ReTest(text, isUrlSafe) ==
    \E k \in 0..2 :
        /\ k <= Len(text)
        /\ \A m \in 1..Len(text) :
              IF m <= Len(text) - k THEN InClass(text[m], isUrlSafe) ELSE text[m] = PAD

\* text.charCodeAt(idx) is a number and the table has an entry for it
ReadDefined(table, text, idx) ==
    idx >= 0 /\ idx < Len(text) /\ text[idx + 1] \in DOMAIN table

\* table[text.charCodeAt(idx)] as the operand of a bitwise operator: a read
\* that finds nothing is undefined, which these operators take as 0
TableAt(table, text, idx) ==
    IF ReadDefined(table, text, idx) THEN table[text[idx + 1]] ELSE 0

\* array[pos] = v on a Uint8Array: stored modulo 256, dropped past the end
Store(array, pos, v) ==
    IF pos >= 0 /\ pos < Len(array) THEN [array EXCEPT ![pos + 1] = v % 256] ELSE array

RECURSIVE DecodeGroups(_, _, _, _, _, _)
\* the for loop of decodeBase64Fallback (base64.ts:295-304) from index idx
DecodeGroups(table, stripped, limit, idx, pos, array) ==
    IF idx >= limit THEN [i |-> idx, pos |-> pos, bytes |-> array]
    ELSE
        LET encoded1 == TableAt(table, stripped, idx)
            encoded2 == TableAt(table, stripped, idx + 1)
            encoded3 == TableAt(table, stripped, idx + 2)
            encoded4 == TableAt(table, stripped, idx + 3)
            a1 == Store(array, pos, BitOr(Shl(encoded1, 2), Shr(encoded2, 4)))
            a2 == Store(a1, pos + 1, BitOr(Shl(BitAnd(encoded2, 15), 4), Shr(encoded3, 2)))
            a3 == Store(a2, pos + 2, BitOr(Shl(BitAnd(encoded3, 3), 6), BitAnd(encoded4, 63)))
        IN  DecodeGroups(table, stripped, limit, idx + 4, pos + 3, a3)

\* an extraBytes with the two remainders swapped
ExtraBytesSwapped(remainder) == IF remainder = 3 THEN 1 ELSE 2

\* what extraBytes is for a remainder that is decoded (base64.ts:282-285)
ExtraBytes(remainder) == IF remainder = 2 THEN 1 ELSE 2

\* hasIncompleteChunk (base64.ts:250)
HasIncompleteChunk(remainder, paddingChars) == remainder # 0 /\ paddingChars = 0

\* a length check that does not look at the mode
InvalidLengthAnyMode(remainder, hasIncompleteChunk, handling) == remainder = 1

\* the condition of the throw for an invalid length (base64.ts:254)
InvalidLength(remainder, hasIncompleteChunk, handling) ==
    remainder = 1 \/ (hasIncompleteChunk /\ handling = "strict")

\* a mask of 0x03 whatever the padding
PaddingMaskTwoBits(paddingChars) == \h03

\* mask (base64.ts:264)
PaddingMask(paddingChars) == IF paddingChars = 2 THEN \h0F ELSE \h03

\* a decodeExtra that does not look at the mode
DecodeExtraAnyMode(remainder, hasIncompleteChunk, handling) == remainder # 0

\* decodeExtra (base64.ts:274-279)
DecodeExtra(remainder, hasIncompleteChunk, handling) ==
    IF hasIncompleteChunk /\ handling = "stop-before-partial"
    THEN FALSE ELSE remainder # 0

\* decodeBase64Fallback(base64, {alphabet, lastChunkHandling}) (base64.ts:226-320)
\* with the two Lazy tables as it finds them: what it returns or throws, and
\* the tables as it leaves them.
decodeBase64Fallback(text, alpha, handling, lazyStd, lazyUrl) ==
    LET stripped == StripPadding(text)
        paddingChars == Len(text) - Len(stripped)
        dataLength == Len(stripped)
        isUrlSafe == alpha = "base64url"
        remainder == dataLength % 4
        hasIncompleteChunk == HasIncompleteChunk(remainder, paddingChars)
        \* base64.ts:262 and 289: (isUrlSafe ? lookupUrl : lookup).force()
        forcedStd == IF isUrlSafe THEN lazyStd ELSE Force(lazyStd, lookupInit)
        forcedUrl == IF isUrlSafe THEN Force(lazyUrl, lookupUrlInit) ELSE lazyUrl
        table == IF isUrlSafe THEN forcedUrl.value ELSE forcedStd.value
        lastDataChar == TableAt(table, stripped, dataLength - 1)
        mask == PaddingMask(paddingChars)
        fullChunks == dataLength \div 4
        decodeExtra == DecodeExtra(remainder, hasIncompleteChunk, handling)
        extraBytes == IF decodeExtra THEN ExtraBytes(remainder) ELSE 0
        byteLength == fullChunks * 3 + extraBytes
        g == DecodeGroups(table, stripped, fullChunks * 4, 0, 0, [k \in 1..byteLength |-> 0])
        e1 == TableAt(table, stripped, g.i)
        e2 == TableAt(table, stripped, g.i + 1)
        e3 == TableAt(table, stripped, g.i + 2)
    IN  IF Len(text) > 0 /\ ~ReTest(text, isUrlSafe)
        THEN [thrown |-> "Found a character that cannot be part of a valid base64 string",
              bytes |-> NoValue, lookup |-> lazyStd, lookupUrl |-> lazyUrl]
        ELSE IF InvalidLength(remainder, hasIncompleteChunk, handling)
        THEN [thrown |-> "The base64 input terminates with a single character, excluding padding (=)",
              bytes |-> NoValue, lookup |-> lazyStd, lookupUrl |-> lazyUrl]
        ELSE IF handling = "strict" /\ paddingChars > 0
                /\ BitAnd(lastDataChar, mask) # 0
        THEN [thrown |-> "The base64 input terminates with non-zero padding bits",
              bytes |-> NoValue, lookup |-> forcedStd, lookupUrl |-> forcedUrl]
        ELSE [thrown |-> "",
              bytes |->
                 IF decodeExtra /\ remainder = 2
                 THEN Store(g.bytes, g.pos, BitOr(Shl(e1, 2), Shr(e2, 4)))
                 ELSE IF decodeExtra /\ remainder = 3
                 THEN Store(Store(g.bytes, g.pos, BitOr(Shl(e1, 2), Shr(e2, 4))),
                            g.pos + 1, BitOr(Shl(BitAnd(e2, 15), 4), Shr(e3, 2)))
                 ELSE g.bytes,
              lookup |-> forcedStd, lookupUrl |-> forcedUrl]

-----------------------------------------------------------------------------
(* The decoder call, one action per path through the loop body.            *)

Iterate ==
    LET n == LoopBody(bytes, fatal, i, result, bytesNeeded, codePoint)
    IN  /\ pc' = n.pc
        /\ i' = n.i
        /\ result' = n.result
        /\ bytesNeeded' = n.bytesNeeded
        /\ codePoint' = n.codePoint
        /\ UNCHANGED <<notUtf8, str, encI, bytes, fatal, ignoreBOM, out>>

\* utf8.ts:183-187
DecodeAscii ==
    /\ pc = "loop"
    /\ i < Len(bytes)
    /\ bytes[i + 1] < \h80
    /\ Iterate

\* an invalid lead byte handled without moving on to the next byte
DecodeInvalidLeadStuck ==
    /\ pc = "loop"
    /\ i < Len(bytes)
    /\ bytes[i + 1] >= \h80
    /\ BytesNeededOf(bytes[i + 1]) = 0
    /\ pc' = IF fatal THEN "error" ELSE "loop"
    /\ result' = IF fatal THEN result ELSE result \o FromCharCode(REPLACEMENT)
    /\ UNCHANGED <<notUtf8, str, encI, bytes, fatal, ignoreBOM, i, bytesNeeded, codePoint, out>>

\* utf8.ts:211-216
DecodeInvalidLead ==
    /\ pc = "loop"
    /\ i < Len(bytes)
    /\ bytes[i + 1] >= \h80
    /\ BytesNeededOf(bytes[i + 1]) = 0
    /\ Iterate

\* utf8.ts:219-223
DecodeTruncated ==
    /\ pc = "loop"
    /\ i < Len(bytes)
    /\ BytesNeededOf(bytes[i + 1]) > 0
    /\ i + BytesNeededOf(bytes[i + 1]) > Len(bytes)
    /\ Iterate

\* utf8.ts:226-247
DecodeSequence ==
    /\ pc = "loop"
    /\ i < Len(bytes)
    /\ BytesNeededOf(bytes[i + 1]) > 0
    /\ i + BytesNeededOf(bytes[i + 1]) <= Len(bytes)
    /\ Iterate

\* utf8.ts:179: the loop condition fails
DecodeLoopEnd ==
    /\ pc = "loop"
    /\ i >= Len(bytes)
    /\ pc' = "exit"
    /\ UNCHANGED <<notUtf8, str, encI, bytes, fatal, ignoreBOM, i, result, bytesNeeded, codePoint, out>>

\* a return that empties the buffer it was given
DecodeReturnConsuming ==
    /\ pc = "exit"
    /\ out' = StripBOM(result, ignoreBOM)
    /\ bytes' = <<>>
    /\ pc' = "done"
    /\ UNCHANGED <<notUtf8, str, encI, fatal, ignoreBOM, i, result, bytesNeeded, codePoint>>

\* utf8.ts:250-255
DecodeReturn ==
    /\ pc = "exit"
    /\ out' = StripBOM(result, ignoreBOM)
    /\ pc' = "done"
    /\ UNCHANGED <<notUtf8, str, encI, bytes, fatal, ignoreBOM, i, result, bytesNeeded, codePoint>>

\* the caller hands the encoded buffer to decodeUtf8Fallback
\* (utf8.test.ts:248-249), which starts its loop (utf8.ts:162-178)
DecodeCall ==
    /\ pc = "encoded"
    /\ pc' = "loop"
    /\ i' = 0
    /\ result' = <<>>
    /\ UNCHANGED <<notUtf8, str, encI, bytes, fatal, ignoreBOM, bytesNeeded, codePoint, out>>

EncodeIterate ==
    LET n == EncodeBody(str, encI, bytes)
    IN  /\ encI' = n.i
        /\ bytes' = n.bytes
        /\ UNCHANGED <<notUtf8, str, fatal, ignoreBOM, i, result, bytesNeeded, codePoint, pc, out>>

\* utf8.ts:130-132
EncodeOneByte ==
    /\ pc = "encode"
    /\ encI < Len(str)
    /\ CodePointAt(str, encI) < \h80
    /\ EncodeIterate

\* utf8.ts:133-135
EncodeTwoBytes ==
    /\ pc = "encode"
    /\ encI < Len(str)
    /\ CodePointAt(str, encI) >= \h80
    /\ CodePointAt(str, encI) < \h800
    /\ EncodeIterate

\* utf8.ts:136-138
EncodeThreeBytes ==
    /\ pc = "encode"
    /\ encI < Len(str)
    /\ CodePointAt(str, encI) >= \h800
    /\ CodePointAt(str, encI) < \h10000
    /\ EncodeIterate

\* utf8.ts:139-148
EncodeFourBytes ==
    /\ pc = "encode"
    /\ encI < Len(str)
    /\ CodePointAt(str, encI) >= \h10000
    /\ EncodeIterate

\* an end of the loop that fails where the code returns the array
EncodeReturnThrows ==
    /\ pc = "encode"
    /\ encI >= Len(str)
    /\ pc' = "error"
    /\ UNCHANGED <<notUtf8, str, encI, bytes, fatal, ignoreBOM, i, result, bytesNeeded,
                   codePoint, out>>

\* utf8.ts:125, 151: the loop condition fails and the array is returned
EncodeReturn ==
    /\ pc = "encode"
    /\ encI >= Len(str)
    /\ bytes' = ToUint8Array(bytes)
    /\ pc' = "encoded"
    /\ UNCHANGED <<notUtf8, str, encI, fatal, ignoreBOM, i, result, bytesNeeded, codePoint, out>>

EncodeNext ==
    \/ EncodeOneByte
    \/ EncodeTwoBytes
    \/ EncodeThreeBytes
    \/ EncodeFourBytes
    \/ EncodeReturn
    \/ DecodeCall

DecodeNext ==
    \/ DecodeAscii
    \/ DecodeInvalidLead
    \/ DecodeTruncated
    \/ DecodeSequence
    \/ DecodeLoopEnd
    \/ DecodeReturn

\* decodeUtf8Fallback entered with a buffer and its options (utf8.ts:162-178)
DecodeInputs ==
    SeqsUpTo(ByteSet, MaxLen) \cup SeqsUpTo(FourByteSet, MaxLongLen)
        \cup SeqsUpTo(BomByteSet, MaxBomLen) \cup SeqsUpTo(ReplByteSet, MaxReplLen)

\* two callers at most share the Lazy
NumCallers == 2

\* calls of force() by one caller
MaxForces == 3

Callers == 1..NumCallers

\* a Lazy just created (part_003:101-102) and nobody calling it
LazyIdle ==
    /\ lazyState = [initialized |-> FALSE, value |-> 0]
    /\ callers = [c \in Callers |-> [pc |-> "idle", got |-> 0, threw |-> FALSE, forces |-> 0]]
    /\ initCalls = 0
    /\ initThrows = 0
    /\ running = 0

\* no call of an exported function, the hex tables not built
CallIdle ==
    /\ fn = ""
    /\ arg = NoValue
    /\ ret = NoValue
    /\ err = ""
    /\ callPc = "idle"
    /\ encodeTable = [initialized |-> FALSE, value |-> NoValue]
    /\ decodeTable = [initialized |-> FALSE, value |-> NoValue]

\* no Base64 call
Base64Idle ==
    /\ data = <<>>
    /\ alphabet = "base64"
    /\ omitPadding = FALSE
    /\ lastChunkHandling = "loose"
    /\ base64 = NoValue
    /\ decoded = NoValue
    /\ thrown = ""
    /\ lookup = [initialized |-> FALSE, value |-> NoValue]
    /\ lookupUrl = [initialized |-> FALSE, value |-> NoValue]
    /\ b64pc = "idle"

\* encodeUtf8Fallback entered with a string (utf8.ts:123-125)
EncodeInputs == SeqsUpTo(UnitSet, MaxStrLen)

\* A call of decodeUtf8Fallback on a buffer, or a call of encodeUtf8Fallback
\* on a string whose result is then decoded.
Init ==
    /\ Base64Idle
    /\ LazyIdle
    /\ CallIdle
    /\ \/ str = NoValue /\ bytes \in DecodeInputs /\ pc = "loop"
       \/ str \in EncodeInputs /\ bytes = <<>> /\ pc = "encode"
    /\ encI = 0
    /\ fatal \in BOOLEAN
    /\ ignoreBOM \in BOOLEAN
    /\ i = 0
    /\ result = <<>>
    /\ bytesNeeded = 0
    /\ codePoint = 0
    /\ out = NoValue

Next == EncodeNext \/ DecodeNext

Spec == Init /\ [][Next]_vars

-----------------------------------------------------------------------------
(* encodeUtf8(input) alone (utf8.ts:55-63).                                *)

\* ENCODE_FALLBACK_THRESHOLD (utf8.ts:25)
ENCODE_FALLBACK_THRESHOLD == 21

\* encodeUtf8 called with a string: assertInputIsString passes and, the
\* string being no longer than the threshold, encodeUtf8Fallback is entered
InitEncodeUtf8 ==
    /\ Base64Idle
    /\ LazyIdle
    /\ CallIdle
    /\ str \in EncodeInputs
    /\ Len(str) <= ENCODE_FALLBACK_THRESHOLD
    /\ bytes = <<>>
    /\ pc = "encode"
    /\ encI = 0
    /\ fatal = FALSE
    /\ ignoreBOM = FALSE
    /\ i = 0
    /\ result = <<>>
    /\ bytesNeeded = 0
    /\ codePoint = 0
    /\ out = NoValue

EncodeUtf8Next ==
    \/ EncodeOneByte
    \/ EncodeTwoBytes
    \/ EncodeThreeBytes
    \/ EncodeFourBytes
    \/ EncodeReturn

\* the call runs on: sequential code takes its next step
SpecEncodeUtf8 ==
    InitEncodeUtf8 /\ [][EncodeUtf8Next]_vars /\ WF_vars(EncodeUtf8Next)

-----------------------------------------------------------------------------
(* The Base64 calls: encodeBase64(data, options), then decodeBase64 of the *)
(* text it returned, both through the pure-JS fallbacks.                   *)

\* base64.ts:175-213
EncodeBase64 ==
    /\ b64pc = "encode"
    /\ base64' = encodeBase64Fallback(data, alphabet, omitPadding)
    /\ b64pc' = "encoded"
    /\ UNCHANGED <<notBase64, data, alphabet, omitPadding, lastChunkHandling,
                   decoded, thrown, lookup, lookupUrl>>

\* base64.ts:226-320, a call that returns
DecodeBase64Returns ==
    /\ b64pc = "encoded"
    /\ LET r == decodeBase64Fallback(base64, alphabet, lastChunkHandling, lookup, lookupUrl)
       IN  /\ r.thrown = ""
           /\ decoded' = r.bytes
           /\ lookup' = r.lookup
           /\ lookupUrl' = r.lookupUrl
    /\ b64pc' = "done"
    /\ UNCHANGED <<notBase64, data, alphabet, omitPadding, lastChunkHandling, base64, thrown>>

\* base64.ts:226-320, a call that throws a SyntaxError
DecodeBase64Throws ==
    /\ b64pc = "encoded"
    /\ LET r == decodeBase64Fallback(base64, alphabet, lastChunkHandling, lookup, lookupUrl)
       IN  /\ r.thrown # ""
           /\ thrown' = r.thrown
           /\ lookup' = r.lookup
           /\ lookupUrl' = r.lookupUrl
    /\ b64pc' = "error"
    /\ UNCHANGED <<notBase64, data, alphabet, omitPadding, lastChunkHandling, base64, decoded>>

Base64Next ==
    \/ EncodeBase64
    \/ DecodeBase64Returns
    \/ DecodeBase64Throws

\* no UTF-8 call
Utf8Idle ==
    /\ str = NoValue
    /\ encI = 0
    /\ bytes = <<>>
    /\ fatal = FALSE
    /\ ignoreBOM = FALSE
    /\ i = 0
    /\ result = <<>>
    /\ bytesNeeded = 0
    /\ codePoint = 0
    /\ pc = "idle"
    /\ out = NoValue

\* encodeBase64Fallback entered with a buffer and its options, the tables
\* not built yet
InitBase64 ==
    /\ Utf8Idle
    /\ LazyIdle
    /\ CallIdle
    /\ data \in SeqsUpTo(DataByteSet, MaxDataLen)
    /\ alphabet \in {"base64", "base64url"}
    /\ omitPadding \in BOOLEAN
    /\ lastChunkHandling \in {"loose", "strict", "stop-before-partial"}
    /\ base64 = NoValue
    /\ decoded = NoValue
    /\ thrown = ""
    /\ lookup = [initialized |-> FALSE, value |-> NoValue]
    /\ lookupUrl = [initialized |-> FALSE, value |-> NoValue]
    /\ b64pc = "encode"

SpecBase64 == InitBase64 /\ [][Base64Next]_vars

-----------------------------------------------------------------------------
(* decodeBase64 called on a text of the caller's, through the fallback.    *)

\* the longest text over TextCharSet
MaxTextLen == 4

\* the longest text over LongTextCharSet
MaxLongTextLen == 8

\* ' ', '+', '-', '=', 'E' (4), 'Q' (16), 'R' (17) and '_'
TextCharSet == {32, 43, 45, 61, 69, 81, 82, 95}

\* '=', 'Q' (16), 'R' (17)
LongTextCharSet == {61, 81, 82}

\* decodeBase64Fallback entered with a string (base64.ts:226-232)
DecodeTexts ==
    SeqsUpTo(TextCharSet, MaxTextLen) \cup SeqsUpTo(LongTextCharSet, MaxLongTextLen)

\* decodeBase64Fallback entered with a text and its options, the tables not
\* built yet
InitBase64Decode ==
    /\ Utf8Idle
    /\ LazyIdle
    /\ CallIdle
    /\ data = <<>>
    /\ alphabet \in {"base64", "base64url"}
    /\ omitPadding = FALSE
    /\ lastChunkHandling \in {"loose", "strict", "stop-before-partial"}
    /\ base64 \in DecodeTexts
    /\ decoded = NoValue
    /\ thrown = ""
    /\ lookup = [initialized |-> FALSE, value |-> NoValue]
    /\ lookupUrl = [initialized |-> FALSE, value |-> NoValue]
    /\ b64pc = "encoded"

Base64DecodeNext ==
    \/ DecodeBase64Returns
    \/ DecodeBase64Throws

SpecBase64Decode == InitBase64Decode /\ [][Base64DecodeNext]_vars

-----------------------------------------------------------------------------
(* Lazy (part_003:100-113): callers of force() on one Lazy.  force() and   *)
(* init are synchronous functions, so a call that has started runs to its  *)
(* return or its throw before another caller's call starts.  The value of *)
(* the n-th invocation of init is n.                                       *)

\* what the callers of force() leave alone
notLazy == <<utf8vars, b64vars, callvars>>

\* a caller that calls force() while another call is still on the stack
ForceCallPreempting ==
    \E c \in Callers :
        /\ callers[c].pc = "idle"
        /\ callers[c].forces < MaxForces
        /\ running' = c
        /\ callers' = [callers EXCEPT ![c].pc = "check", ![c].threw = FALSE]
        /\ UNCHANGED <<lazyState, initCalls, initThrows, notLazy>>

\* a caller calls force() (part_003:105): the stack is empty
ForceCall ==
    \E c \in Callers :
        /\ running = 0
        /\ callers[c].pc = "idle"
        /\ callers[c].forces < MaxForces
        /\ running' = c
        /\ callers' = [callers EXCEPT ![c].pc = "check", ![c].threw = FALSE]
        /\ UNCHANGED <<lazyState, initCalls, initThrows, notLazy>>

\* a test that takes the Lazy for uninitialized every time
ForceCheckAlwaysInit ==
    \E c \in Callers :
        /\ callers[c].pc = "check"
        /\ callers' = [callers EXCEPT ![c].pc = "init"]
        /\ UNCHANGED <<lazyState, initCalls, initThrows, running, notLazy>>

\* if (!initialized) (part_003:106)
ForceCheck ==
    \E c \in Callers :
        /\ callers[c].pc = "check"
        /\ callers' = [callers EXCEPT ![c].pc =
                           IF ~lazyState.initialized THEN "init" ELSE "return"]
        /\ UNCHANGED <<lazyState, initCalls, initThrows, running, notLazy>>

\* value = init() (part_003:107), init returning normally
InitReturns ==
    \E c \in Callers :
        /\ callers[c].pc = "init"
        /\ initCalls' = initCalls + 1
        /\ lazyState' = [lazyState EXCEPT !.value = initCalls + 1]
        /\ callers' = [callers EXCEPT ![c].pc = "mark"]
        /\ UNCHANGED <<initThrows, running, notLazy>>

\* an init that throws and leaves the Lazy marked as initialized
InitThrowsMarks ==
    \E c \in Callers :
        /\ callers[c].pc = "init"
        /\ initCalls' = initCalls + 1
        /\ initThrows' = initThrows + 1
        /\ lazyState' = [lazyState EXCEPT !.initialized = TRUE]
        /\ callers' = [callers EXCEPT ![c].pc = "idle", ![c].threw = TRUE,
                                      ![c].forces = @ + 1]
        /\ running' = 0
        /\ UNCHANGED notLazy

\* value = init() (part_003:107), init throwing: the assignment and the
\* line after it are not reached, the error leaves force()
InitThrows ==
    \E c \in Callers :
        /\ callers[c].pc = "init"
        /\ initCalls' = initCalls + 1
        /\ initThrows' = initThrows + 1
        /\ callers' = [callers EXCEPT ![c].pc = "idle", ![c].threw = TRUE,
                                      ![c].forces = @ + 1]
        /\ running' = 0
        /\ UNCHANGED <<lazyState, notLazy>>

\* initialized = true (part_003:108)
ForceMark ==
    \E c \in Callers :
        /\ callers[c].pc = "mark"
        /\ lazyState' = [lazyState EXCEPT !.initialized = TRUE]
        /\ callers' = [callers EXCEPT ![c].pc = "return"]
        /\ UNCHANGED <<initCalls, initThrows, running, notLazy>>

\* return value (part_003:110)
ForceReturn ==
    \E c \in Callers :
        /\ callers[c].pc = "return"
        /\ callers' = [callers EXCEPT ![c].pc = "idle", ![c].got = lazyState.value,
                                      ![c].forces = @ + 1]
        /\ running' = 0
        /\ UNCHANGED <<lazyState, initCalls, initThrows, notLazy>>

LazyNext ==
    \/ ForceCall
    \/ ForceCheck
    \/ InitReturns
    \/ InitThrows
    \/ ForceMark
    \/ ForceReturn

InitLazy ==
    /\ Utf8Idle
    /\ Base64Idle
    /\ CallIdle
    /\ LazyIdle

SpecLazy == InitLazy /\ [][LazyNext]_vars

-----------------------------------------------------------------------------
(* The exported functions and the helpers that check their argument        *)
(* (internal/helpers.ts, lib/helpers.ts, hex.ts).  A JavaScript value is a *)
(* record with its type: a string has its code units, a Uint8Array, an     *)
(* ArrayBuffer and a DataView have the bytes they give access to.          *)

\* the longest string handed to an exported function
MaxHexLen == 4

\* the longest buffer handed to an exported function
MaxArgLen == 2

\* '0', '9', 'F', 'a', 'g' and U+00E9
HexCharSet == {48, 57, 70, 97, 103, 233}

\* the bytes of the buffers
ArgByteSet == {\h00, \hFF}

StringValues == {[type |-> "string", units |-> u] : u \in SeqsUpTo(HexCharSet, MaxHexLen)}

BufferValues ==
    {[type |-> t, bytes |-> b] :
        t \in {"Uint8Array", "ArrayBuffer", "DataView"}, b \in SeqsUpTo(ArgByteSet, MaxArgLen)}

\* values that are neither a string nor a BufferSource
OtherValues == {[type |-> t] : t \in {"number", "boolean", "null", "undefined", "object"}}

ArgValues == StringValues \cup BufferValues \cup OtherValues

\* assertInputIsString (internal/helpers.ts:35-39): TRUE when it returns,
\* FALSE when it throws its TypeError
assertInputIsString(input) == input.type = "string"

\* a conversion that takes a value of another type for an empty buffer
bufferSourceToBytesLenient(d) ==
    IF d.type \in {"Uint8Array", "ArrayBuffer", "DataView"}
    THEN [err |-> "", bytes |-> d.bytes]
    ELSE [err |-> "", bytes |-> <<>>]

\* bufferSourceToBytes (internal/helpers.ts:12-27)
bufferSourceToBytes(d) ==
    IF d.type = "Uint8Array" THEN [err |-> "", bytes |-> d.bytes]
    ELSE IF d.type = "ArrayBuffer" THEN [err |-> "", bytes |-> d.bytes]
    ELSE IF d.type = "DataView" THEN [err |-> "", bytes |-> d.bytes]
    ELSE [err |-> "TypeError", bytes |-> NoValue]

\* encodeUtf8 (utf8.ts:55-63) for a string no longer than the threshold
encodeUtf8(input) ==
    IF ~assertInputIsString(input) THEN [err |-> "TypeError", bytes |-> NoValue]
    ELSE [err |-> "", bytes |-> encodeUtf8Fallback(input.units)]

\* dataSourceToBytes (lib/helpers.ts:19-23)
dataSourceToBytes(d) ==
    IF d.type = "string" THEN encodeUtf8(d) ELSE bufferSourceToBytes(d)

\* encodeBase64 (base64.ts:121-128) without options, no native toBase64
encodeBase64(d) ==
    LET b == dataSourceToBytes(d)
    IN  IF b.err # "" THEN [err |-> b.err, ret |-> NoValue]
        ELSE [err |-> "", ret |-> encodeBase64Fallback(b.bytes, "base64", FALSE)]

\* i.toString(16) for i < 16: '0'-'9', 'a'-'f'
HexDigit(n) == IF n < 10 THEN 48 + n ELSE 97 + (n - 10)

\* what the init of encodeTable returns (hex.ts:25-27)
encodeTableInit == [b \in 0..255 |-> <<HexDigit(b \div 16), HexDigit(b % 16)>>]

\* what the init of decodeTable returns (hex.ts:33-42)
decodeTableInit ==
    [c \in 0..127 |->
        IF c \in 48..57 THEN c - 48
        ELSE IF c \in 65..70 THEN 10 + (c - 65)
        ELSE IF c \in 97..102 THEN 10 + (c - 97)
        ELSE \hFF]

RECURSIVE EncodeHexLoop(_, _, _)
\* the for loop of encodeHexFallback (hex.ts:107-109)
EncodeHexLoop(table, bs, k) ==
    IF k > Len(bs) THEN <<>> ELSE table[bs[k]] \o EncodeHexLoop(table, bs, k + 1)

\* encodeHexFallback (hex.ts:103-111) with the Lazy as it finds it
encodeHexFallback(bs, lazyTable) ==
    LET forced == Force(lazyTable, encodeTableInit)
    IN  [ret |-> EncodeHexLoop(forced.value, bs, 1), encodeTable |-> forced]

\* encodeHex (hex.ts:65-71), no native toHex
encodeHex(d, lazyTable) ==
    LET b == dataSourceToBytes(d)
    IN  IF b.err # "" THEN [err |-> b.err, ret |-> NoValue, encodeTable |-> lazyTable]
        ELSE LET r == encodeHexFallback(b.bytes, lazyTable)
             IN  [err |-> "", ret |-> r.ret, encodeTable |-> r.encodeTable]

RECURSIVE DecodeHexLoop(_, _, _, _)
\* the for loop of decodeHexFallback (hex.ts:133-140) from index idx
DecodeHexLoop(table, hex, idx, array) ==
    IF idx >= Len(hex) THEN [thrown |-> FALSE, bytes |-> array]
    ELSE LET hi == TableAt(table, hex, idx)
             lo == TableAt(table, hex, idx + 1)
         IN  IF BitOr(hi, lo) > \h0F
             THEN [thrown |-> TRUE, bytes |-> NoValue]
             ELSE DecodeHexLoop(table, hex, idx + 2,
                                Store(array, Shr(idx, 1), BitOr(Shl(hi, 4), lo)))

\* decodeHexFallback (hex.ts:122-143) with the Lazy as it finds it
decodeHexFallback(input, lazyTable) ==
    IF ~assertInputIsString(input)
    THEN [err |-> "TypeError", ret |-> NoValue, decodeTable |-> lazyTable]
    ELSE IF Len(input.units) % 2 # 0
    THEN [err |-> "SyntaxError", ret |-> NoValue, decodeTable |-> lazyTable]
    ELSE LET forced == Force(lazyTable, decodeTableInit)
             r == DecodeHexLoop(forced.value, input.units, 0,
                                [k \in 1..(Len(input.units) \div 2) |-> 0])
         IN  IF r.thrown
             THEN [err |-> "SyntaxError", ret |-> NoValue, decodeTable |-> forced]
             ELSE [err |-> "", ret |-> r.bytes, decodeTable |-> forced]

\* the exported functions that are called
ExportedFns ==
    {"encodeUtf8", "encodeBase64", "encodeHex", "decodeBase64Fallback", "decodeHexFallback"}

\* where a call ends
CallEnd(e) == IF e = "" THEN "returned" ELSE "threw"

\* encodeUtf8(arg)
CallEncodeUtf8 ==
    /\ callPc = "call"
    /\ fn = "encodeUtf8"
    /\ LET r == encodeUtf8(arg)
       IN  /\ ret' = r.bytes
           /\ err' = r.err
           /\ callPc' = CallEnd(r.err)
    /\ UNCHANGED <<fn, arg, encodeTable, decodeTable, utf8vars, b64vars, lazyvars>>

\* encodeBase64(arg)
CallEncodeBase64 ==
    /\ callPc = "call"
    /\ fn = "encodeBase64"
    /\ LET r == encodeBase64(arg)
       IN  /\ ret' = r.ret
           /\ err' = r.err
           /\ callPc' = CallEnd(r.err)
    /\ UNCHANGED <<fn, arg, encodeTable, decodeTable, utf8vars, b64vars, lazyvars>>

\* encodeHex(arg)
CallEncodeHex ==
    /\ callPc = "call"
    /\ fn = "encodeHex"
    /\ LET r == encodeHex(arg, encodeTable)
       IN  /\ ret' = r.ret
           /\ err' = r.err
           /\ encodeTable' = r.encodeTable
           /\ callPc' = CallEnd(r.err)
    /\ UNCHANGED <<fn, arg, decodeTable, utf8vars, b64vars, lazyvars>>

\* decodeBase64Fallback(arg): assertInputIsString (base64.ts:227), then the
\* decoding with the default options
CallDecodeBase64Fallback ==
    /\ callPc = "call"
    /\ fn = "decodeBase64Fallback"
    /\ IF ~assertInputIsString(arg)
       THEN /\ ret' = NoValue
            /\ err' = "TypeError"
            /\ callPc' = "threw"
            /\ UNCHANGED <<lookup, lookupUrl>>
       ELSE LET r == decodeBase64Fallback(arg.units, "base64", "loose", lookup, lookupUrl)
            IN  /\ ret' = r.bytes
                /\ err' = (IF r.thrown = "" THEN "" ELSE "SyntaxError")
                /\ callPc' = CallEnd(r.thrown)
                /\ lookup' = r.lookup
                /\ lookupUrl' = r.lookupUrl
    /\ UNCHANGED <<fn, arg, encodeTable, decodeTable, utf8vars, lazyvars,
                   data, alphabet, omitPadding, lastChunkHandling, base64, decoded,
                   thrown, b64pc>>

\* decodeHexFallback(arg)
CallDecodeHexFallback ==
    /\ callPc = "call"
    /\ fn = "decodeHexFallback"
    /\ LET r == decodeHexFallback(arg, decodeTable)
       IN  /\ ret' = r.ret
           /\ err' = r.err
           /\ decodeTable' = r.decodeTable
           /\ callPc' = CallEnd(r.err)
    /\ UNCHANGED <<fn, arg, encodeTable, utf8vars, b64vars, lazyvars>>

CallNext ==
    \/ CallEncodeUtf8
    \/ CallEncodeBase64
    \/ CallEncodeHex
    \/ CallDecodeBase64Fallback
    \/ CallDecodeHexFallback

\* an exported function is called with a value, no table built yet
InitCall ==
    /\ Utf8Idle
    /\ Base64Idle
    /\ LazyIdle
    /\ fn \in ExportedFns
    /\ arg \in ArgValues
    /\ ret = NoValue
    /\ err = ""
    /\ callPc = "call"
    /\ encodeTable = [initialized |-> FALSE, value |-> NoValue]
    /\ decodeTable = [initialized |-> FALSE, value |-> NoValue]

SpecCall == InitCall /\ [][CallNext]_vars

-----------------------------------------------------------------------------
(* A sequence of calls: decodeUtf8Fallback, encodeBase64Fallback followed  *)
(* by decodeBase64Fallback of its text, or decodeBase64Fallback alone, one *)
(* call after the other.  The locals of a call that has ended are gone;    *)
(* the Lazy tables of base64.ts stay as the calls left them.               *)

\* the longest argument of a call of the sequence
MaxSessionLen == 2

\* 'A', a continuation byte, a 2-byte lead
SessionByteSet == {\h41, \h80, \hC2}

\* the longest text given to decodeBase64Fallback in the sequence
MaxSessionTextLen == 3

\* '=', 'Q', 'R'
SessionCharSet == {61, 81, 82}

\* bytes whose sextets reach the two characters the alphabets differ in
SessionDataSet == {\hFB, \hFF}

\* no call is running
NoCallRunning == pc \in {"idle", "done", "error"} /\ b64pc \in {"idle", "done", "error"}

\* the UTF-8 variables with no call
Utf8Reset ==
    /\ str' = NoValue
    /\ encI' = 0
    /\ bytes' = <<>>
    /\ fatal' = FALSE
    /\ ignoreBOM' = FALSE
    /\ i' = 0
    /\ result' = <<>>
    /\ bytesNeeded' = 0
    /\ codePoint' = 0
    /\ pc' = "idle"
    /\ out' = NoValue

\* decodeUtf8Fallback is entered with a buffer (utf8.ts:162-178)
StartDecodeUtf8 ==
    /\ NoCallRunning
    /\ bytes' \in SeqsUpTo(SessionByteSet, MaxSessionLen)
    /\ fatal' \in BOOLEAN
    /\ ignoreBOM' \in BOOLEAN
    /\ str' = NoValue
    /\ encI' = 0
    /\ i' = 0
    /\ result' = <<>>
    /\ bytesNeeded' = 0
    /\ codePoint' = 0
    /\ pc' = "loop"
    /\ out' = NoValue
    /\ data' = <<>>
    /\ alphabet' = "base64"
    /\ omitPadding' = FALSE
    /\ lastChunkHandling' = "loose"
    /\ base64' = NoValue
    /\ decoded' = NoValue
    /\ thrown' = ""
    /\ b64pc' = "idle"
    /\ UNCHANGED <<lookup, lookupUrl, lazyvars, callvars>>

\* encodeBase64Fallback is entered with a buffer (base64.ts:175-185)
StartEncodeBase64 ==
    /\ NoCallRunning
    /\ Utf8Reset
    /\ data' \in SeqsUpTo(SessionDataSet, MaxSessionLen)
    /\ alphabet' \in {"base64", "base64url"}
    /\ omitPadding' \in BOOLEAN
    /\ lastChunkHandling' \in {"loose", "strict", "stop-before-partial"}
    /\ base64' = NoValue
    /\ decoded' = NoValue
    /\ thrown' = ""
    /\ b64pc' = "encode"
    /\ UNCHANGED <<lookup, lookupUrl, lazyvars, callvars>>

\* decodeBase64Fallback is entered with a text (base64.ts:226-232)
StartDecodeBase64 ==
    /\ NoCallRunning
    /\ Utf8Reset
    /\ data' = <<>>
    /\ alphabet' \in {"base64", "base64url"}
    /\ omitPadding' = FALSE
    /\ lastChunkHandling' \in {"loose", "strict", "stop-before-partial"}
    /\ base64' \in SeqsUpTo(SessionCharSet, MaxSessionTextLen)
    /\ decoded' = NoValue
    /\ thrown' = ""
    /\ b64pc' = "encoded"
    /\ UNCHANGED <<lookup, lookupUrl, lazyvars, callvars>>

SessionNext ==
    \/ StartDecodeUtf8
    \/ StartEncodeBase64
    \/ StartDecodeBase64
    \/ DecodeNext
    \/ Base64Next

\* the module just loaded: no call yet, no table built
InitSession ==
    /\ Utf8Idle
    /\ Base64Idle
    /\ LazyIdle
    /\ CallIdle

SpecSession == InitSession /\ [][SessionNext]_vars

\* the indexes i of the reads table[stripped.charCodeAt(i)] that a call of
\* decodeBase64Fallback makes: the strict check of the padding bits
\* (base64.ts:263), the groups of the loop (296-299) and the leftover
\* characters (308-309, 312-314); none when the call throws before them
TableReads(text, alpha, handling) ==
    LET stripped == StripPadding(text)
        paddingChars == Len(text) - Len(stripped)
        dataLength == Len(stripped)
        isUrlSafe == alpha = "base64url"
        remainder == dataLength % 4
        hasIncompleteChunk == HasIncompleteChunk(remainder, paddingChars)
        table == IF isUrlSafe THEN lookupUrlInit ELSE lookupInit
        checked == handling = "strict" /\ paddingChars > 0
        fullChunks == dataLength \div 4
        decodeExtra == DecodeExtra(remainder, hasIncompleteChunk, handling)
    IN  IF Len(text) > 0 /\ ~ReTest(text, isUrlSafe) THEN {}
        ELSE IF InvalidLength(remainder, hasIncompleteChunk, handling) THEN {}
        ELSE IF checked /\ BitAnd(TableAt(table, stripped, dataLength - 1),
                                  PaddingMask(paddingChars)) # 0
        THEN {dataLength - 1}
        ELSE (IF checked THEN {dataLength - 1} ELSE {})
                \cup {k \in 0..(dataLength - 1) : k < fullChunks * 4}
                \cup (IF decodeExtra /\ remainder = 2
                      THEN {fullChunks * 4, fullChunks * 4 + 1}
                      ELSE IF decodeExtra /\ remainder = 3
                      THEN {fullChunks * 4, fullChunks * 4 + 1, fullChunks * 4 + 2}
                      ELSE {})

-----------------------------------------------------------------------------
(* The loop of decodeUtf8Fallback on its own, run to its end: the function *)
(* is synchronous, so once entered its next step is always taken.          *)

\* the longest buffer given to the loop
MaxLoopLen == 4

\* 'A', a continuation byte, a 2-byte, a 3-byte and a 4-byte lead
LoopByteSet == { \h41, \h80, \hC2, \hE1, \hF1 }

\* decodeUtf8Fallback has been entered (utf8.ts:162-178)
InitDecodeLoop ==
    /\ Base64Idle
    /\ LazyIdle
    /\ CallIdle
    /\ str = NoValue
    /\ encI = 0
    /\ bytes \in SeqsUpTo(LoopByteSet, MaxLoopLen)
    /\ fatal \in BOOLEAN
    /\ ignoreBOM = FALSE
    /\ i = 0
    /\ result = <<>>
    /\ bytesNeeded = 0
    /\ codePoint = 0
    /\ pc = "loop"
    /\ out = NoValue

SpecDecodeLoop == InitDecodeLoop /\ [][DecodeNext]_vars /\ WF_vars(DecodeNext)

RECURSIVE ContReads(_, _, _, _, _, _)
\* the indexes i + j read by the loop over the continuation bytes
\* (utf8.ts:227-228), from j, up to its break
ContReads(bs, at, needed, j, lowerBoundary, upperBoundary) ==
    IF j >= needed THEN {}
    ELSE IF at + j >= Len(bs) THEN {at + j}
    ELSE LET byte == bs[at + j + 1]
             lower == IF j = 1 THEN lowerBoundary ELSE \h80
             upper == IF j = 1 THEN upperBoundary ELSE \hBF
         IN  IF byte < lower \/ byte > upper THEN {at + j}
             ELSE {at + j} \cup ContReads(bs, at, needed, j + 1, lowerBoundary, upperBoundary)

\* the indexes of bytes[...] read by the iteration that starts at index
\* at: bytes[i] (utf8.ts:180) and, for a sequence that is not truncated,
\* bytes[i + j] (utf8.ts:228)
BytesRead(bs, at) ==
    IF at >= Len(bs) THEN {at}
    ELSE LET byte1 == bs[at + 1]
             needed == BytesNeededOf(byte1)
         IN  IF byte1 < \h80 \/ needed = 0 \/ at + needed > Len(bs) THEN {at}
             ELSE {at} \cup ContReads(bs, at, needed, 1,
                                     LowerBoundary(byte1), UpperBoundary(byte1))

\* the step machine and the function agree on every finished call
StepsMatchFunction ==
    LET f == decodeUtf8Fallback(bytes, fatal, ignoreBOM)
    IN  /\ pc = "done" => f.ok /\ f.text = out
        /\ pc = "error" => ~f.ok /\ out = NoValue
        /\ (pc \notin {"encode"} /\ str # NoValue) => bytes = encodeUtf8Fallback(str)

-----------------------------------------------------------------------------
(* The reference the fallback is compared with: the UTF-8 decoder of the   *)
(* WHATWG Encoding Standard, which the native TextDecoder of utf8.ts:32-35 *)
(* implements.  Written from the standard, with arithmetic only.           *)

\* bytes still to come after a lead byte, 0 for a byte that is no lead
RefNeeded(b) ==
    IF b \in 194..223 THEN 1
    ELSE IF b \in 224..239 THEN 2
    ELSE IF b \in 240..244 THEN 3
    ELSE 0

\* the range of the first continuation byte after lead b
RefLower(b) == IF b = 224 THEN 160 ELSE IF b = 240 THEN 144 ELSE 128

RefUpper(b) == IF b = 237 THEN 159 ELSE IF b = 244 THEN 143 ELSE 191

\* the payload bits of lead b
RefLeadBits(b) == IF b < 224 THEN b - 192 ELSE IF b < 240 THEN b - 224 ELSE b - 240

\* a code point as UTF-16 code units
RefUnits(cp) ==
    IF cp < 65536 THEN <<cp>>
    ELSE << 55296 + ((cp - 65536) \div 1024), 56320 + ((cp - 65536) % 1024) >>

RECURSIVE WhatwgRun(_, _, _, _, _, _, _, _, _)
\* the standard's handler, from byte k (1-based) with its decoder state
WhatwgRun(bs, k, cp, seen, needed, lower, upper, text, errors) ==
    IF k > Len(bs)
    THEN IF needed # 0
         THEN [text |-> text \o <<65533>>, errors |-> errors + 1]
         ELSE [text |-> text, errors |-> errors]
    ELSE
        LET b == bs[k]
        IN  IF needed = 0
            THEN IF b < 128
                 THEN WhatwgRun(bs, k + 1, 0, 0, 0, 128, 191, text \o <<b>>, errors)
                 ELSE IF RefNeeded(b) > 0
                 THEN WhatwgRun(bs, k + 1, RefLeadBits(b), 0, RefNeeded(b),
                                RefLower(b), RefUpper(b), text, errors)
                 ELSE WhatwgRun(bs, k + 1, 0, 0, 0, 128, 191,
                                text \o <<65533>>, errors + 1)
            ELSE IF b < lower \/ b > upper
            THEN WhatwgRun(bs, k, 0, 0, 0, 128, 191, text \o <<65533>>, errors + 1)
            ELSE IF seen + 1 = needed
            THEN WhatwgRun(bs, k + 1, 0, 0, 0, 128, 191,
                           text \o RefUnits(cp * 64 + (b - 128)), errors)
            ELSE WhatwgRun(bs, k + 1, cp * 64 + (b - 128), seen + 1, needed,
                           128, 191, text, errors)

\* TextDecoder('utf-8', {fatal, ignoreBOM}).decode(bs)
WhatwgDecode(bs, isFatal, keepBOM) ==
    LET r == WhatwgRun(bs, 1, 0, 0, 0, 128, 191, <<>>, 0)
    IN  IF isFatal /\ r.errors > 0 THEN [ok |-> FALSE, text |-> NoValue]
        ELSE [ok |-> TRUE,
              text |-> IF ~keepBOM /\ Len(r.text) > 0 /\ r.text[1] = 65279
                       THEN Tail(r.text) ELSE r.text]

IsAscii(u) == u < 128

IsReplacement(u) == u = 65533

\* the first three bytes are EF BB BF
HasBomPrefix(bs) == Len(bs) >= 3 /\ bs[1] = 239 /\ bs[2] = 187 /\ bs[3] = 191

\* byte j (1..) after the lead at 1-based position k is in its range
ContInRange(bs, k, j) ==
    /\ k + j <= Len(bs)
    /\ IF j = 1 THEN bs[k + j] \in RefLower(bs[k])..RefUpper(bs[k])
                ELSE bs[k + j] \in 128..191

\* a byte that can never be a lead
NeverLead(b) == b \in 128..193 \/ b \in 245..255

\* a string of scalar values only: every high surrogate is followed by a
\* low one and every low surrogate follows a high one
RECURSIVE WellFormedFrom(_, _)
WellFormedFrom(s, k) ==
    IF k > Len(s) THEN TRUE
    ELSE IF s[k] \in 55296..56319
    THEN k + 1 <= Len(s) /\ s[k + 1] \in 56320..57343 /\ WellFormedFrom(s, k + 2)
    ELSE s[k] \notin 56320..57343 /\ WellFormedFrom(s, k + 1)

WellFormed(s) == WellFormedFrom(s, 1)

\* the scalar values of a well-formed string, in order
RECURSIVE ScalarsFrom(_, _)
ScalarsFrom(s, k) ==
    IF k > Len(s) THEN <<>>
    ELSE IF s[k] \in 55296..56319
    THEN <<(s[k] - 55296) * 1024 + (s[k + 1] - 56320) + 65536>> \o ScalarsFrom(s, k + 2)
    ELSE <<s[k]>> \o ScalarsFrom(s, k + 1)

Scalars(s) == ScalarsFrom(s, 1)

\* the UTF-8 bytes of one scalar value
RefEncodeScalar(cp) ==
    IF cp < 128 THEN <<cp>>
    ELSE IF cp < 2048 THEN <<192 + (cp \div 64), 128 + (cp % 64)>>
    ELSE IF cp < 65536
    THEN <<224 + (cp \div 4096), 128 + ((cp \div 64) % 64), 128 + (cp % 64)>>
    ELSE <<240 + (cp \div 262144), 128 + ((cp \div 4096) % 64),
           128 + ((cp \div 64) % 64), 128 + (cp % 64)>>

RECURSIVE RefEncodeAll(_)
RefEncodeAll(cps) ==
    IF cps = <<>> THEN <<>> ELSE RefEncodeScalar(Head(cps)) \o RefEncodeAll(Tail(cps))

-----------------------------------------------------------------------------
(* Claims.                                                                 *)

\* C1: for every buffer b, each alphabet and each omitPadding, decoding
\* the encoder's output with the same alphabet and the default (loose)
\* lastChunkHandling succeeds and returns a buffer equal to b.
C1_Base64RoundTrip ==
    (lastChunkHandling = "loose" /\ b64pc \in {"done", "error"})
        => b64pc = "done" /\ thrown = "" /\ decoded = data

\* a base64url round trip without padding of 4 bytes whose text holds '-'
\* or '_' and ends in a 2-character group
C1_Witness ==
    /\ b64pc = "done"
    /\ lastChunkHandling = "loose"
    /\ alphabet = "base64url"
    /\ omitPadding
    /\ Len(data) = 4
    /\ Len(base64) = 6
    /\ \E k \in 1..Len(base64) : base64[k] \in {45, 95}
    /\ decoded = data

\* C2 as stated: for every string s of scalar values,
\* decodeUtf8(encodeUtf8(s)) with default options returns exactly s.
C2_RoundTripExact ==
    (pc = "done" /\ str # NoValue /\ WellFormed(str) /\ ~fatal /\ ~ignoreBOM)
        => out = str

\* C2 amended: for every string s of scalar values the round trip never
\* fails and returns s, less its first code unit when s begins with U+FEFF
\* and ignoreBOM is false (the default); with ignoreBOM = true it returns
\* exactly s.
C2_RoundTripUpToLeadingBOM ==
    (str # NoValue /\ WellFormed(str)) =>
        /\ pc # "error"
        /\ pc = "done" =>
              out = (IF ~ignoreBOM /\ Len(str) > 0 /\ str[1] = 65279
                     THEN Tail(str) ELSE str)

\* a round trip, with default options, of a surrogate pair and one more unit
C2_Witness ==
    /\ pc = "done"
    /\ str # NoValue
    /\ WellFormed(str)
    /\ Len(str) = 3
    /\ str[1] \in 55296..56319
    /\ ~fatal
    /\ ~ignoreBOM
    /\ out = str

\* C3: for every buffer and every fatal / ignoreBOM combination the fallback
\* decoder returns the string the WHATWG decoder returns, and fails exactly
\* when it fails.
C3_MatchesWhatwg ==
    LET w == WhatwgDecode(bytes, fatal, ignoreBOM)
    IN  /\ pc = "done" => w.ok /\ out = w.text
        /\ pc = "error" => ~w.ok

\* a valid lead, k in-range continuation bytes (fewer than the lead asks
\* for), then the end of the buffer or ASCII bytes only
MalformedHead(bs) ==
    /\ Len(bs) >= 1
    /\ RefNeeded(bs[1]) > 0
    /\ \E k \in 0..(RefNeeded(bs[1]) - 1) :
          /\ Len(bs) >= k + 1
          /\ \A j \in 1..k : ContInRange(bs, 1, j)
          /\ \A m \in (k + 2)..Len(bs) : IsAscii(bs[m])

\* C4: in non-fatal mode a malformed sequence (a valid lead and the in-range
\* continuation bytes consumed so far, cut short by the end of input or by
\* a byte failing its range check) contributes exactly one U+FFFD.
C4_OneReplacementPerSequence ==
    (pc = "done" /\ ~fatal /\ MalformedHead(bytes))
        => Len(SelectSeq(out, IsReplacement)) = 1

\* C5: in non-fatal mode a byte failing its range check is re-examined as
\* the start of a new sequence, so no ASCII byte of the input is missing
\* from the output: the ASCII code units of the output are the ASCII bytes
\* of the input, in order.
C5_AsciiBytesKept ==
    (pc = "done" /\ ~fatal)
        => SelectSeq(out, IsAscii) = SelectSeq(bytes, IsAscii)

\* C6: with fatal = true the call either returns the complete decoded string
\* or fails, at the first invalid unit, returning no text; it fails exactly
\* when the buffer holds an invalid unit.
C6_FatalAllOrNothing ==
    fatal =>
        LET w == WhatwgDecode(bytes, TRUE, ignoreBOM)
        IN  /\ pc # "done" => out = NoValue
            /\ pc = "done" => w.ok /\ out = w.text
            /\ pc = "error" =>
                  /\ ~w.ok
                  /\ i < Len(bytes)
                  /\ WhatwgDecode(SubSeq(bytes, 1, i), TRUE, TRUE).text = result
                  /\ \A m \in (i + 1)..Len(bytes) :
                        ~WhatwgDecode(SubSeq(bytes, 1, m), TRUE, TRUE).ok
            /\ pc \in {"loop", "exit"} =>
                  WhatwgDecode(SubSeq(bytes, 1, i), TRUE, TRUE).text = result

\* a fatal call that failed after decoding some text
C6_Witness ==
    fatal /\ pc = "error" /\ i >= 2 /\ Len(result) >= 2 /\ out = NoValue

\* C7: with ignoreBOM = false, exactly when the buffer starts with EF BB BF
\* those bytes produce no character and the rest is decoded as usual; with
\* ignoreBOM = true they decode to U+FEFF; the two results differ by at most
\* one leading U+FEFF, and a BOM at a later position is kept.
C7_BomHandling ==
    pc = "done" =>
        LET whole == decodeUtf8Fallback(bytes, fatal, TRUE).text
            rest  == decodeUtf8Fallback(Slice(bytes, 3), fatal, TRUE).text
        IN  /\ StartsWith(whole, BOM) <=> HasBomPrefix(bytes)
            /\ HasBomPrefix(bytes) => out = (IF ignoreBOM THEN BOM \o rest ELSE rest)
            /\ ~HasBomPrefix(bytes) => out = whole
            /\ ignoreBOM => out = whole
            /\ ~ignoreBOM => (out = whole \/ BOM \o out = whole)

\* two byte order marks in a row, decoded with ignoreBOM = false: the first
\* is dropped and the second kept
C7_Witness ==
    /\ pc = "done"
    /\ ~ignoreBOM
    /\ HasBomPrefix(bytes)
    /\ HasBomPrefix(Slice(bytes, 3))
    /\ out = BOM

\* C8: at a lead position a byte below 0x80 is emitted unchanged; a byte in
\* 0x80..0xC1 or 0xF5..0xFF is never a lead (non-fatal: exactly one U+FFFD
\* and an advance of one byte); 0xC2..0xDF, 0xE0..0xEF and 0xF0..0xF4 start
\* 2-, 3- and 4-byte sequences.
C8_LeadClasses ==
    [][ (pc = "loop" /\ i < Len(bytes)) =>
          LET b == bytes[i + 1]
          IN  /\ IsAscii(b) =>
                    pc' = "loop" /\ i' = i + 1 /\ result' = result \o <<b>>
              /\ (NeverLead(b) /\ ~fatal) =>
                    pc' = "loop" /\ i' = i + 1 /\ result' = result \o <<65533>>
              /\ (NeverLead(b) /\ fatal) => pc' = "error"
              /\ b \in 194..223 => bytesNeeded' = 2
              /\ b \in 224..239 => bytesNeeded' = 3
              /\ b \in 240..244 => bytesNeeded' = 4
              /\ (RefNeeded(b) > 0 /\ \A j \in 1..RefNeeded(b) : ContInRange(bytes, i + 1, j))
                    => pc' = "loop" /\ i' = i + RefNeeded(b) + 1
              /\ i' # i => (i' = i + 1 \/ (RefNeeded(b) > 0 /\ i' = i + RefNeeded(b) + 1))
      ]_vars

\* a non-fatal call that has just replaced the invalid lead 0xC1 or 0xF5
C8_Witness ==
    /\ pc = "loop"
    /\ ~fatal
    /\ i >= 2
    /\ bytes[i] \in {193, 245}
    /\ Len(result) = i
    /\ result[i] = 65533

\* the code points a sequence of n bytes may stand for
ScalarRange(n) ==
    IF n = 2 THEN 128..2047
    ELSE IF n = 3 THEN (2048..65535) \ (55296..57343)
    ELSE 65536..1114111

\* C9: every code point appended from a 2-byte sequence lies in 0x80..0x7FF,
\* from a 3-byte sequence in 0x800..0xFFFF outside 0xD800..0xDFFF, from a
\* 4-byte sequence in 0x10000..0x10FFFF; the first continuation byte is in
\* its narrowed range and the others in 0x80..0xBF.
C9_NoOverlongSurrogateOutOfRange ==
    [][ (pc = "loop" /\ result' # result) =>
          \/ /\ i' = i + 1
             /\ IsAscii(bytes[i + 1])
             /\ result' = result \o <<bytes[i + 1]>>
          \/ /\ i' \in {i, i + 1}
             /\ result' = result \o <<65533>>
          \/ \E n \in 2..4 :
                /\ i' = i + n
                /\ bytesNeeded' = n
                /\ RefNeeded(bytes[i + 1]) = n - 1
                /\ \A j \in 1..(n - 1) : ContInRange(bytes, i + 1, j)
                /\ codePoint' \in ScalarRange(n)
                /\ result' = result \o RefUnits(codePoint')
      ]_vars

\* the call has just decoded F4 8F BF BF, the largest scalar value
C9_Witness ==
    /\ pc = "loop"
    /\ i = 4
    /\ bytesNeeded = 4
    /\ codePoint = 1114111
    /\ result = <<56319, 57343>>

\* C10: for a string without unpaired surrogates the encoder emits, per
\* scalar value in order, its 1, 2, 3 or 4 bytes, a surrogate pair being
\* combined and consumed as one scalar value; the returned buffer holds
\* exactly those bytes.
C10_EncodesEachScalar ==
    (str # NoValue /\ WellFormed(str)) =>
        /\ pc = "encode" =>
              /\ encI <= Len(str)
              /\ WellFormed(SubSeq(str, 1, encI))
              /\ bytes = RefEncodeAll(Scalars(SubSeq(str, 1, encI)))
        /\ pc # "encode" => bytes = RefEncodeAll(Scalars(str))

\* U+10FFFF then 'A' encoded: F4 8F BF BF 41
C10_Witness ==
    /\ pc = "encoded"
    /\ str = <<56319, 57343, 65>>
    /\ bytes = <<244, 143, 191, 191, 65>>

\* the code unit at index idx of s is a surrogate without a partner: a high
\* surrogate not followed by a low one, or a low surrogate not preceded by
\* a high one
UnpairedAt(s, idx) ==
    LET u == s[idx + 1]
    IN  \/ /\ u \in 55296..56319
           /\ ~(idx + 2 <= Len(s) /\ s[idx + 2] \in 56320..57343)
        \/ /\ u \in 56320..57343
           /\ ~(idx >= 1 /\ s[idx] \in 55296..56319)

\* C11: an iteration of the encoder that meets an unpaired surrogate code
\* unit u appends exactly the 3 bytes 0xE0|(u>>12), 0x80|((u>>6)&0x3F),
\* 0x80|(u&0x3F) and advances by exactly one code unit, so that the next
\* code unit is encoded on its own.
C11_UnpairedSurrogateAsThreeBytes ==
    [][ (pc = "encode" /\ encI < Len(str) /\ UnpairedAt(str, encI)) =>
            LET u == str[encI + 1]
            IN  /\ encI' = encI + 1
                /\ bytes' = bytes \o << 224 + (u \div 4096),
                                        128 + ((u \div 64) % 64),
                                        128 + (u % 64) >>
                /\ pc' = "encode" ]_vars

\* a lone low surrogate, a lone high surrogate, then 'A': ED B0 80, ED A0
\* 80, 41
C11_Witness ==
    /\ pc = "encoded"
    /\ str = <<56320, 55296, 65>>
    /\ bytes = <<237, 176, 128, 237, 160, 128, 65>>

\* C12: encodeUtf8 called with any string, empty or not, with or without
\* unpaired surrogates, never fails and always returns a byte buffer.
C12_EncodeUtf8Total ==
    /\ [](pc \in {"encode", "encoded"})
    /\ (pc = "encode") ~>
          (pc = "encoded" /\ \A k \in 1..Len(bytes) : bytes[k] \in 0..255)

\* a string of MaxStrLen units with a lone low and a lone high surrogate
\* has returned its 7 bytes
C12_Witness ==
    /\ pc = "encoded"
    /\ Len(str) = MaxStrLen
    /\ str[1] \in 56320..57343
    /\ str[Len(str)] \in 55296..56319
    /\ str[2] < 128
    /\ Len(bytes) = 7

\* the character of a 6-bit value in the standard alphabet, or in the
\* URL-safe one, which has '-' for '+' and '_' for '/'
RefBase64Char(v, isUrl) ==
    IF v < 26 THEN 65 + v
    ELSE IF v < 52 THEN 97 + (v - 26)
    ELSE IF v < 62 THEN 48 + (v - 52)
    ELSE IF v = 62 THEN (IF isUrl THEN 45 ELSE 43)
    ELSE (IF isUrl THEN 95 ELSE 47)

\* the 6-bit values of a buffer from its k-th byte: 4 per full group of 3
\* bytes, 2 for a last single byte, 3 for a last pair of bytes
RECURSIVE RefSextets(_, _)
RefSextets(bs, k) ==
    IF k > Len(bs) THEN <<>>
    ELSE IF k = Len(bs)
    THEN << bs[k] \div 4, (bs[k] % 4) * 16 >>
    ELSE IF k + 1 = Len(bs)
    THEN << bs[k] \div 4, (bs[k] % 4) * 16 + (bs[k + 1] \div 16), (bs[k + 1] % 16) * 4 >>
    ELSE << bs[k] \div 4, (bs[k] % 4) * 16 + (bs[k + 1] \div 16),
            (bs[k + 1] % 16) * 4 + (bs[k + 2] \div 64), bs[k + 2] % 64 >>
            \o RefSextets(bs, k + 3)

\* the reference encoding of a buffer
RefBase64(bs, isUrl, omit) ==
    LET v == RefSextets(bs, 1)
        chars == [k \in 1..Len(v) |-> RefBase64Char(v[k], isUrl)]
    IN  chars \o (IF omit \/ Len(bs) % 3 = 0 THEN <<>>
                  ELSE IF Len(bs) % 3 = 1 THEN <<61, 61>>
                  ELSE <<61>>)

\* C13: for every buffer, alphabet and omitPadding the encoder's text is
\* the reference encoding: 4 characters per full group of 3 bytes, 2
\* characters and '==' for a 1-byte remainder, 3 characters and '=' for a
\* 2-byte remainder, the padding left out with omitPadding, '-' and '_'
\* for '+' and '/' in the URL-safe alphabet, the empty text for the empty
\* buffer.
C13_EncodeMatchesReference ==
    b64pc # "encode" =>
        /\ base64 = RefBase64(data, alphabet = "base64url", omitPadding)
        /\ data = <<>> => base64 = <<>>

\* FB FF in the URL-safe alphabet with padding: "-_8="
C13_Witness ==
    /\ b64pc = "encoded"
    /\ alphabet = "base64url"
    /\ ~omitPadding
    /\ data = <<251, 255>>
    /\ base64 = <<45, 95, 56, 61>>

\* a character of the 64 of the alphabet
InAlphabet(c, isUrl) == \E v \in 0..63 : RefBase64Char(v, isUrl) = c

\* how many '=' end the text
RECURSIVE TrailingPads(_)
TrailingPads(text) ==
    IF text # <<>> /\ text[Len(text)] = 61
    THEN 1 + TrailingPads(SubSeq(text, 1, Len(text) - 1))
    ELSE 0

\* the text holds a character outside the alphabet other than at most two
\* trailing '='
HasForeignChar(text, isUrl) ==
    LET t == TrailingPads(text)
    IN  \E m \in 1..Len(text) :
            /\ ~InAlphabet(text[m], isUrl)
            /\ ~(t <= 2 /\ m > Len(text) - t)

\* the call has ended with a SyntaxError and no bytes
Base64Rejected == b64pc = "error" /\ thrown # "" /\ decoded = NoValue

\* C14: in every lastChunkHandling mode a text holding a character outside
\* the chosen alphabet other than at most two trailing '=' ('+' or '/'
\* under base64url, '-' or '_' under base64, whitespace, a '=' before the
\* end, more than two trailing '=') is rejected with a SyntaxError.
C14_ForeignCharRejected ==
    (b64pc \in {"done", "error"} /\ HasForeignChar(base64, alphabet = "base64url"))
        => Base64Rejected

\* "Q+QQ" under base64url, stop-before-partial, has been rejected
C14_Witness ==
    /\ b64pc = "error"
    /\ alphabet = "base64url"
    /\ lastChunkHandling = "stop-before-partial"
    /\ base64 = <<81, 43, 81, 81>>

\* the text is made of characters of the alphabet followed by at most two
\* '='
WellFormedText(text, isUrl) == ~HasForeignChar(text, isUrl)

\* the number of data characters of such a text
DataLength(text) == Len(text) - TrailingPads(text)

\* C15: a text of alphabet characters whose number of data characters,
\* the trailing padding left out, is 1 modulo 4 is rejected with a
\* SyntaxError in all three modes, padded or not, and gives no bytes.
C15_SingleTrailingCharRejected ==
    (/\ b64pc \in {"done", "error"}
     /\ WellFormedText(base64, alphabet = "base64url")
     /\ DataLength(base64) % 4 = 1)
        => Base64Rejected

\* "QQQQQ==" in loose mode has been rejected
C15_Witness ==
    /\ b64pc = "error"
    /\ lastChunkHandling = "loose"
    /\ base64 = <<81, 81, 81, 81, 81, 61, 61>>
    /\ decoded = NoValue

\* the 6-bit value of a character of the alphabet
RefBase64Value(c, isUrl) == CHOOSE v \in 0..63 : RefBase64Char(v, isUrl) = c

\* the first count bytes of the bit string made of the 6-bit values of the
\* characters: byte j starts at bit 8 * (j - 1), inside character q + 1 at
\* offset r, and takes 8 bits of the 12 of that character and the next
RefBase64Bytes(chars, isUrl, count) ==
    [j \in 1..count |->
        LET q == (8 * (j - 1)) \div 6
            r == (8 * (j - 1)) % 6
            pair == RefBase64Value(chars[q + 1], isUrl) * 64
                        + RefBase64Value(chars[q + 2], isUrl)
        IN  (pair \div (IF r = 0 THEN 16 ELSE IF r = 2 THEN 4 ELSE 1)) % 256]

\* the text is made of characters of the alphabet only, with no '='
UnpaddedText(text, isUrl) == \A m \in 1..Len(text) : InAlphabet(text[m], isUrl)

\* C16: in loose mode an unpadded text of 2 or 3 data characters modulo 4
\* is accepted; its complete groups give 3 bytes each and the 2 or 3
\* characters left give 1 or 2 more bytes, sliced like those of a full
\* group, the unused low bits discarded.
C16_LooseDecodesLeftover ==
    (/\ b64pc \in {"done", "error"}
     /\ lastChunkHandling = "loose"
     /\ UnpaddedText(base64, alphabet = "base64url")
     /\ Len(base64) % 4 \in {2, 3})
        => /\ b64pc = "done"
           /\ thrown = ""
           /\ Len(decoded) = 3 * (Len(base64) \div 4) + (Len(base64) % 4) - 1
           /\ decoded = RefBase64Bytes(base64, alphabet = "base64url", Len(decoded))

\* "QRQRQRR" in loose mode: 3 bytes of the group, 2 of the 3 characters
\* left, the low bits 01 of the last 'R' gone
C16_Witness ==
    /\ b64pc = "done"
    /\ lastChunkHandling = "loose"
    /\ base64 = <<81, 82, 81, 82, 81, 82, 82>>
    /\ decoded = <<65, 20, 17, 65, 20>>

\* C17: in strict mode a text of alphabet characters with no '=' is
\* rejected with a SyntaxError when its length is not a multiple of 4, and
\* accepted and decoded in full, 3 bytes per group, when it is.
C17_StrictUnpadded ==
    (/\ b64pc \in {"done", "error"}
     /\ lastChunkHandling = "strict"
     /\ UnpaddedText(base64, alphabet = "base64url"))
        => IF Len(base64) % 4 # 0
           THEN Base64Rejected
           ELSE /\ b64pc = "done"
                /\ thrown = ""
                /\ Len(decoded) = 3 * (Len(base64) \div 4)
                /\ decoded = RefBase64Bytes(base64, alphabet = "base64url", Len(decoded))

\* "QRQRQR" in strict mode has been rejected
C17_Witness ==
    /\ b64pc = "error"
    /\ lastChunkHandling = "strict"
    /\ base64 = <<81, 82, 81, 82, 81, 82>>
    /\ decoded = NoValue

\* "QRQRRQRQ" in strict mode has been decoded to its 6 bytes
C17_WitnessAccepted ==
    /\ b64pc = "done"
    /\ lastChunkHandling = "strict"
    /\ base64 = <<81, 82, 81, 82, 82, 81, 82, 81>>
    /\ Len(decoded) = 6

\* what the same call returns or throws in loose mode, the tables not built
LooseOutcome ==
    decodeBase64Fallback(base64, alphabet, "loose",
                         [initialized |-> FALSE, value |-> NoValue],
                         [initialized |-> FALSE, value |-> NoValue])

\* C18: in stop-before-partial mode an unpadded text of 2 or 3 data
\* characters modulo 4 gives exactly the bytes of its complete groups, 3
\* per group, the characters after them ignored without an error; a text
\* whose last chunk is padded with '=' is decoded as in loose mode.
C18_StopBeforePartial ==
    (/\ b64pc \in {"done", "error"}
     /\ lastChunkHandling = "stop-before-partial"
     /\ WellFormedText(base64, alphabet = "base64url")
     /\ DataLength(base64) % 4 \in {2, 3})
        => IF TrailingPads(base64) = 0
           THEN /\ b64pc = "done"
                /\ thrown = ""
                /\ Len(decoded) = 3 * (Len(base64) \div 4)
                /\ decoded = RefBase64Bytes(base64, alphabet = "base64url", Len(decoded))
           ELSE /\ b64pc = "done"
                /\ thrown = LooseOutcome.thrown
                /\ decoded = LooseOutcome.bytes
                /\ Len(decoded) = 3 * (DataLength(base64) \div 4)
                                     + (DataLength(base64) % 4) - 1
                /\ decoded = RefBase64Bytes(base64, alphabet = "base64url", Len(decoded))

\* "QRQRQR" in stop-before-partial mode: the 3 bytes of "QRQR" and no more
C18_Witness ==
    /\ b64pc = "done"
    /\ lastChunkHandling = "stop-before-partial"
    /\ base64 = <<81, 82, 81, 82, 81, 82>>
    /\ decoded = <<65, 20, 17>>

\* "QRQRQR==" in stop-before-partial mode: 4 bytes, as in loose mode
C18_WitnessPadded ==
    /\ b64pc = "done"
    /\ lastChunkHandling = "stop-before-partial"
    /\ base64 = <<81, 82, 81, 82, 81, 82, 61, 61>>
    /\ decoded = <<65, 20, 17, 65>>

\* the message of the throw at base64.ts:267
NonZeroPaddingBitsError == "The base64 input terminates with non-zero padding bits"

\* the last data character before the padding has a non-zero bit under
\* 0x0F when two '=' follow it, under 0x03 when one does
NonZeroPaddingBits(text, isUrl) ==
    LET t == TrailingPads(text)
        d == Len(text) - t
    IN  /\ d >= 1
        /\ RefBase64Value(text[d], isUrl) % (IF t = 2 THEN 16 ELSE 4) # 0

\* a text of alphabet characters followed by one or two '='
PaddedText(text, isUrl) == WellFormedText(text, isUrl) /\ TrailingPads(text) \in {1, 2}

\* how many bytes d data characters hold
RefByteCount(d) == 3 * (d \div 4) + (IF d % 4 = 0 THEN 0 ELSE (d % 4) - 1)

\* what the call has to do with a padded text: in strict mode, fail with
\* the error of the padding bits exactly when they are not zero; in loose
\* mode, accept the text and discard those bits
PaddingBitsRule ==
    LET isUrl == alphabet = "base64url"
    IN  /\ lastChunkHandling = "strict" =>
              /\ (thrown = NonZeroPaddingBitsError) <=> NonZeroPaddingBits(base64, isUrl)
              /\ thrown = NonZeroPaddingBitsError => Base64Rejected
        /\ lastChunkHandling = "loose" =>
              /\ b64pc = "done"
              /\ thrown = ""
              /\ Len(decoded) = RefByteCount(DataLength(base64))
              /\ decoded = RefBase64Bytes(base64, isUrl, Len(decoded))

\* C19 as stated: for every text with padding present the strict call
\* fails with 'non-zero padding bits' exactly when the last data character
\* before the padding has a non-zero bit under the mask, and the loose call
\* accepts the same text.
C19_PaddingBitsExactly ==
    (b64pc \in {"done", "error"} /\ PaddedText(base64, alphabet = "base64url"))
        => PaddingBitsRule

\* C19, amended: the same for every padded text whose number of data
\* characters is not 1 modulo 4; a text with 1 modulo 4 data characters
\* fails earlier, with the error of the single trailing character, in
\* strict and in loose mode alike.
C19_PaddingBitsWhenLengthValid ==
    (/\ b64pc \in {"done", "error"}
     /\ PaddedText(base64, alphabet = "base64url")
     /\ DataLength(base64) % 4 # 1)
        => PaddingBitsRule

\* "QE==" in strict mode: 'E' is 4, zero under 0x03 and not under 0x0F
C19_Witness ==
    /\ b64pc = "error"
    /\ lastChunkHandling = "strict"
    /\ base64 = <<81, 69, 61, 61>>
    /\ thrown = NonZeroPaddingBitsError

\* "QR==" in loose mode is [65]
C19_WitnessLoose ==
    /\ b64pc = "done"
    /\ lastChunkHandling = "loose"
    /\ base64 = <<81, 82, 61, 61>>
    /\ decoded = <<65>>

\* a text with correct padding: alphabet characters and then '==' after a
\* last group of 2, '=' after a last group of 3, nothing after complete
\* groups
CorrectlyPadded(text, isUrl) ==
    /\ WellFormedText(text, isUrl)
    /\ \/ DataLength(text) % 4 = 0 /\ TrailingPads(text) = 0
       \/ DataLength(text) % 4 = 2 /\ TrailingPads(text) = 2
       \/ DataLength(text) % 4 = 3 /\ TrailingPads(text) = 1

\* C20: in strict mode the call succeeds only for a correctly padded text,
\* whose length with its '=' is a multiple of 4; every other text (2 data
\* characters and a single '=', '=' after complete groups, padding alone)
\* is rejected with a SyntaxError.
C20_StrictRequiresCorrectPadding ==
    (b64pc \in {"done", "error"} /\ lastChunkHandling = "strict")
        => /\ b64pc = "done" => CorrectlyPadded(base64, alphabet = "base64url")
           /\ ~CorrectlyPadded(base64, alphabet = "base64url") => Base64Rejected

\* some call of force() has returned or thrown
SomeForceDone == \E c \in Callers : callers[c].forces > 0

\* C21: as long as init returns normally, init is invoked exactly once,
\* by the first force(), and every force() that has returned, the first
\* and the later ones, returned the value of that one invocation.
C21_InitOnce ==
    initThrows = 0 =>
        /\ initCalls <= 1
        /\ SomeForceDone => initCalls = 1
        /\ \A c \in Callers :
              callers[c].forces > 0 => ~callers[c].threw /\ callers[c].got = 1

\* both callers have made all their calls and init has run once
C21_Witness ==
    /\ \A c \in Callers : callers[c].forces = MaxForces /\ callers[c].got = 1
    /\ initCalls = 1
    /\ initThrows = 0

C30_ThrowingInit ==
    /\ [](/\ (initCalls = initThrows) => (~lazyState.initialized /\ lazyState.value = 0)
          /\ initCalls - initThrows <= 1
          /\ lazyState.initialized => initCalls - initThrows = 1)
    /\ [][/\ initThrows' > initThrows =>
                 /\ lazyState' = lazyState
                 /\ ~lazyState'.initialized
                 /\ \E c \in Callers : callers[c].pc = "init" /\ callers'[c].threw
                                            /\ callers'[c].pc = "idle"
          /\ \A c \in Callers :
                 (callers[c].pc = "check" /\ callers'[c].pc # "check") =>
                     callers'[c].pc = (IF lazyState.initialized THEN "return" ELSE "init")
          /\ initCalls > initThrows => initCalls' = initCalls]_vars

\* init threw for caller 1, was invoked again for the next force() and
\* returned the value that caller 2 got
C30_Witness ==
    /\ callers[1].threw
    /\ callers[1].forces = 1
    /\ callers[2].got = 2
    /\ initCalls = 2
    /\ initThrows = 1
    /\ lazyState = [initialized |-> TRUE, value |-> 2]

\* no table of the codecs has been built
NoTableBuilt ==
    /\ ~encodeTable.initialized
    /\ ~decodeTable.initialized
    /\ ~lookup.initialized
    /\ ~lookupUrl.initialized

\* the call failed with a TypeError, with no result and no codec work
TypeFailure == callPc = "threw" /\ err = "TypeError" /\ ret = NoValue /\ NoTableBuilt

C23_WitnessString ==
    /\ callPc = "returned"
    /\ fn = "encodeBase64"
    /\ arg = [type |-> "string", units |-> <<233, 97>>]
    /\ ret = <<119, 54, 108, 104>>

\* a character of [0-9a-fA-F]
IsHexChar(c) == c \in 48..57 \/ c \in 65..70 \/ c \in 97..102

\* the value of such a character
HexValue(c) == IF c <= 57 THEN c - 48 ELSE IF c <= 70 THEN c - 55 ELSE c - 87

\* C24: decodeHexFallback fails with a SyntaxError for every string of odd
\* length and for every string holding a character outside [0-9a-fA-F],
\* whatever its character code, codes of 128 and above included; for any
\* other string it returns length / 2 bytes, byte i being
\* 16 * value(hex[2i]) + value(hex[2i + 1]).
C24_HexDecode ==
    (callPc \in {"returned", "threw"} /\ fn = "decodeHexFallback" /\ arg.type = "string")
        => LET hex == arg.units
           IN  IF Len(hex) % 2 # 0 \/ \E k \in 1..Len(hex) : ~IsHexChar(hex[k])
               THEN callPc = "threw" /\ err = "SyntaxError" /\ ret = NoValue
               ELSE /\ callPc = "returned"
                    /\ err = ""
                    /\ ret = [j \in 1..(Len(hex) \div 2) |->
                                 16 * HexValue(hex[2 * j - 1]) + HexValue(hex[2 * j])]

\* C25: the steps of decodeUtf8Fallback leave every byte of the buffer it
\* was given as it is, and a lookup table of base64.ts, once built, holds
\* what buildLookup gave it after every later call, encode or decode,
\* returning or throwing.
C25_DecodingMutatesNothing ==
    /\ [][(pc \in {"loop", "exit"}) => (bytes' = bytes)]_vars
    /\ [][(lookup.initialized => (lookup' = lookup))
            /\ (lookupUrl.initialized => (lookupUrl' = lookupUrl))]_vars
    /\ [](/\ lookup.initialized => lookup.value = buildLookup(base64abc)
          /\ lookupUrl.initialized => lookupUrl.value = buildLookup(base64urlAbc))

\* both tables built by earlier calls, and a strict decoding that read one
\* of them for the padding bits has just thrown
C25_Witness ==
    /\ lookup.initialized
    /\ lookupUrl.initialized
    /\ b64pc = "error"
    /\ thrown = NonZeroPaddingBitsError

\* a buffer with a truncated sequence has been decoded and is what it was
C25_WitnessBuffer ==
    /\ pc = "done"
    /\ bytes = <<65, 194>>
    /\ out = <<65, 65533>>
    /\ lookup.initialized

\* C26: what encodeBase64Fallback returns with padding, for either
\* alphabet, is correctly padded and has zero padding bits, and
\* decodeBase64Fallback in strict mode with the same alphabet accepts it
\* and returns the bytes that were encoded.
C26_StrictRoundTrip ==
    (lastChunkHandling = "strict" /\ ~omitPadding /\ b64pc \in {"encoded", "done", "error"})
        => /\ CorrectlyPadded(base64, alphabet = "base64url")
           /\ TrailingPads(base64) > 0 => ~NonZeroPaddingBits(base64, alphabet = "base64url")
           /\ b64pc # "error"
           /\ b64pc = "done" => decoded = data

\* two bytes went through the base64url encoder, which padded with one
\* '=', and came back from the strict decoder
C26_Witness ==
    /\ b64pc = "done"
    /\ lastChunkHandling = "strict"
    /\ ~omitPadding
    /\ alphabet = "base64url"
    /\ data = <<251, 255>>
    /\ base64 = <<45, 95, 56, 61>>
    /\ decoded = data

\* the text passed the validation of base64.ts:241-244
PassedRegex == Len(base64) = 0 \/ ReTest(base64, alphabet = "base64url")

\* C27: for a text that passed the regex validation, every read of the
\* lookup table made by decodeBase64Fallback, in the strict check of the
\* padding bits, in the loop of the groups and in the leftover decoding,
\* is at the code of a character that exists in the stripped text and
\* belongs to the chosen alphabet.
C27_TableReadsInRange ==
    (b64pc \in {"done", "error"} /\ PassedRegex)
        => \A r \in TableReads(base64, alphabet, lastChunkHandling) :
              /\ r \in 0..(Len(StripPadding(base64)) - 1)
              /\ InAlphabet(StripPadding(base64)[r + 1], alphabet = "base64url")
              /\ ReadDefined(IF alphabet = "base64url" THEN lookupUrlInit ELSE lookupInit,
                             StripPadding(base64), r)

RECURSIVE CountReplacements(_)
\* how many U+FFFD a string holds
CountReplacements(text) ==
    IF text = <<>> THEN 0
    ELSE (IF IsReplacement(Head(text)) THEN 1 ELSE 0) + CountReplacements(Tail(text))

\* how many times EF BF BD, the encoding of U+FFFD, stands in a buffer
CountEncodedReplacements(bs) ==
    Cardinality({k \in 1..(Len(bs) - 2) :
                    bs[k] = 239 /\ bs[k + 1] = 191 /\ bs[k + 2] = 189})

\* the non-fatal result holds a U+FFFD that no EF BF BD of the buffer
\* accounts for: it was substituted for malformed input
Substituted(bs, text) == CountReplacements(text) > CountEncodedReplacements(bs)

\* C28: on the same buffer and the same ignoreBOM, the fatal call fails
\* exactly when the non-fatal call substitutes a replacement character
\* for malformed input; when the fatal call does not fail, both return
\* the same string, and a well-formed EF BF BD gives U+FFFD in both.
C28_FatalAgreesWithNonFatal ==
    (str = NoValue /\ pc \in {"done", "error"}) =>
        LET other == decodeUtf8Fallback(bytes, ~fatal, ignoreBOM)
            strict == IF fatal THEN [ok |-> pc = "done", text |-> out] ELSE other
            lenient == IF fatal THEN other ELSE [ok |-> pc = "done", text |-> out]
        IN  /\ lenient.ok
            /\ ~strict.ok <=> Substituted(bytes, lenient.text)
            /\ strict.ok => strict.text = lenient.text
            /\ strict.ok => CountReplacements(strict.text) = CountEncodedReplacements(bytes)

\* a fatal call has returned U+FFFD for a well-formed EF BF BD
C28_Witness ==
    /\ str = NoValue
    /\ pc = "done"
    /\ fatal
    /\ bytes = <<65, 239, 191, 189>>
    /\ out = <<65, 65533>>

\* a non-fatal call has substituted for a lone continuation byte next to a
\* well-formed EF BF BD, on a buffer where the fatal call fails
C28_WitnessSubstituted ==
    /\ str = NoValue
    /\ pc = "done"
    /\ ~fatal
    /\ bytes = <<189, 239, 191, 189>>
    /\ out = <<65533, 65533>>
    /\ ~decodeUtf8Fallback(bytes, TRUE, ignoreBOM).ok

\* C29: the loop of decodeUtf8Fallback terminates.  The read index starts
\* at 0; an iteration that stays in the loop adds 1, 2, 3 or 4 to it; it
\* never exceeds the length of the buffer; every bytes[...] read is inside
\* the buffer; the string built so far, and the string returned, is no
\* longer than the number of bytes consumed; every call returns or throws.
C29_DecodeLoopTerminates ==
    /\ (pc = "loop" /\ i = 0)
    /\ [](i \in 0..Len(bytes) /\ Len(result) <= Len(bytes))
    /\ [](pc = "loop" => Len(result) <= i)
    /\ []((pc = "loop" /\ i < Len(bytes)) => BytesRead(bytes, i) \subseteq 0..(Len(bytes) - 1))
    /\ [][(pc = "loop" /\ pc' = "loop") => (i' - i) \in 1..4]_vars
    /\ [](pc = "done" => Len(out) <= Len(bytes))
    /\ (pc = "loop") ~> (pc \in {"done", "error"})

\* a buffer of 4 bytes holding one 4-byte sequence has been decoded: the
\* index went from 0 to 4 in one iteration
C29_Witness ==
    /\ pc = "done"
    /\ bytes = <<241, 128, 128, 128>>
    /\ i = 4
    /\ Len(out) = 2

\* the loop was left by the break of a truncated sequence, after an
\* iteration that advanced by 3
C29_WitnessBreak ==
    /\ pc = "done"
    /\ bytes = <<225, 128, 128, 194>>
    /\ i = 3
    /\ out = <<4096, 65533>>

=============================================================================
